---- MODULE Spec2Model ----
(***************************************************************************)
(* Conversation history stores, the history-aware invoker and the model    *)
(* provider registry of wuchen-ai-agent-py.                                *)
(*                                                                         *)
(* Text is modelled as a sequence of one-character strings, so that the    *)
(* "Role: content" formatting of MemoryStore and the prefix parsing of     *)
(* RedisChatHistory are computed, and so is the concatenation of streamed  *)
(* fragments.                                                              *)
(***************************************************************************)
EXTENDS Integers, Sequences, FiniteSets, TLC

\* ---------------------------------------------------------------- bounds
\* Operations per behaviour of the store harness.
MaxOps == 3
\* Largest size limit tried by the bounded reads.
MaxLimit == 3
\* Turns (calls of the invoker or of BaseAgent) per behaviour.
MaxTurns == 2
\* Fragments a wrapped stream yields at most.
MaxFragments == 2

\* ------------------------------------------------------------------ data
Users == {"u1", "u2"}
Sessions == {"s1", "s2"}
\* (user_id, session_id): one user with two sessions, one session id under two users.
Keys == {<<"u1", "s1">>, <<"u1", "s2">>, <<"u2", "s1">>}

Types == {"human", "ai", "system", "tool"}
Contents == {<<"a">>, <<"b">>}
Message == [type : Types, content : Contents \cup {<<>>, <<"a", "b">>, <<"b", "a">>}]

HumanMessage(c) == [type |-> "human", content |-> c]
AIMessage(c) == [type |-> "ai", content |-> c]
SystemMessage(c) == [type |-> "system", content |-> c]
ToolMessage(c) == [type |-> "tool", content |-> c]

\* The messages the store harness appends: every role, two contents.
TestMessages ==
    {HumanMessage(<<"a">>), AIMessage(<<"b">>), SystemMessage(<<"a">>), ToolMessage(<<"b">>)}

Backends == {"memory", "redis", "mongo", "mongostore"}

\* history_size = None
NoSize == -1
\* limit = None (a limit of 0 is falsy too)
NoLimit == 0

Min(a, b) == IF a <= b THEN a ELSE b
Max(a, b) == IF a >= b THEN a ELSE b

\* s.startswith(p)
StartsWith(s, p) == Len(s) >= Len(p) /\ SubSeq(s, 1, Len(p)) = p
\* s[n:]
DropPrefix(s, n) == SubSeq(s, n + 1, Len(s))
\* s[:n]
Take(s, n) == SubSeq(s, 1, Min(n, Len(s)))
\* s[n:] for a skip count
Skip(s, n) == SubSeq(s, n + 1, Len(s))
\* The last min(Len(s), k) elements of s, in order.
LastK(s, k) == SubSeq(s, Len(s) - Min(Len(s), k) + 1, Len(s))

RECURSIVE Flatten(_)
Flatten(ss) == IF ss = <<>> THEN <<>> ELSE Head(ss) \o Flatten(Tail(ss))

VARIABLES
    backend,    \* the store variant the harness drives
    mem,        \* InMemoryChatHistory.messages, one instance per key
    redis,      \* RedisStore: the items of namespace ("memories", user_id)
    mongo,      \* the message_store collection, in _id order
    docs,       \* MongoStore's messages collection, in insertion order
    clock,      \* the backends' timestamp source
    lastOp,     \* the last store operation and the listing before it
    nOps,
    manager,      \* ChatHistoryManager's input/output message keys
    store,        \* session id -> InMemoryChatHistory.messages (get_session_history)
    chat_history, \* BaseAgent.chat_history: session id -> list
    calls,        \* the calls in flight or last finished, one per caller
    expected,     \* per session: the log its successful invoker turns should give
    agentExpected, \* the same for BaseAgent
    nTurns,
    api_keys,            \* environment: the providers whose <NAME>_API_KEY is set
    DEFAULT_AI_PROVIDER, \* Config.DEFAULT_AI_PROVIDER
    discovered,          \* provider classes found by discovery, with AVAILABLE_MODELS
    providers,           \* ModelProviderManager._providers, in insertion order
    default_provider,    \* ModelProviderManager._default_provider
    registrations,       \* the register_provider calls made so far
    lastGet,             \* the last get_chat_model call and its outcome
    phase,               \* start-up: "config", "failed", "auto", "manual"
    discovered_agents,   \* AgentFactory._discovered_agents: the agent types found
    config_objects,      \* the callers' config dicts: their keys, in insertion order
    instances,           \* AgentFactory._instances: config_key -> instance
    made,                \* the instances constructed so far: class and config passed
    lastCreate,          \* the last create_agent call and its outcome
    multi,               \* the MultiAgentManager: agents (in order), default_agent
    agent,               \* the agent instance the chat calls are made on
    rag_chain,           \* WritingAgent.rag_chain: the model it is bound to
    history_chain,       \* WritingAgent.history_chain: the model it is bound to
    agent_executor,      \* DBAgent.agent_executor: the model it is bound to
    chats,               \* the chat calls in flight or last finished, one per caller
    nChats,
    history_objects,     \* every history object constructed so far
    agent_histories,     \* BaseAgent.chat_history: session id -> its list
    app_histories,       \* app.py's store: session id -> its ChatMessageHistory
    appended,            \* per registry and session id: the messages appended so far
    granted,             \* per registry and session id: the objects its accesses returned
    lastAccess,          \* the last access to a registry and what it returned
    nAccesses,
    lastNew,             \* the last construction of a document-backed history
    lastFault,           \* the last call during which the backend failed
    nWrites,
    service,             \* the process: importing or serving, and its two managers
    stream,              \* the /stream_chat response being produced or last produced
    health,              \* the last answer of /health
    nRequests,
    threads,    \* the two threads racing on a check-and-create registry
    memory,    \* tools/db_tool.py DBAgent.memory: the session context of the one MongoChatMemory
    toolChats,    \* the chat / achat calls on the instance
    nToolChats,
    lastDB,    \* web/agent/db_agent.py DBAgent: the last turn, get_history or clear_history
    nDBOps

storeVars == <<backend, mem, redis, mongo, docs, clock, lastOp, nOps>>
invokerVars == <<manager, store, chat_history, calls, expected, agentExpected, nTurns>>
providerVars == <<api_keys, DEFAULT_AI_PROVIDER, discovered, providers, default_provider,
                  registrations, lastGet, phase>>
factoryVars == <<discovered_agents, config_objects, instances, made, lastCreate, multi>>
agentVars == <<agent, rag_chain, history_chain, agent_executor, chats, nChats>>
historyVars == <<history_objects, agent_histories, app_histories, appended, granted,
                 lastAccess, nAccesses, lastNew, lastFault, nWrites>>
serviceVars == <<service, stream, health, nRequests>>
raceVars == <<threads>>
toolVars == <<memory, toolChats, nToolChats>>
dbVars == <<lastDB, nDBOps>>
vars == <<backend, mem, redis, mongo, docs, clock, lastOp, nOps,
          manager, store, chat_history, calls, expected, agentExpected, nTurns,
          api_keys, DEFAULT_AI_PROVIDER, discovered, providers, default_provider,
          registrations, lastGet, phase,
          discovered_agents, config_objects, instances, made, lastCreate, multi,
          agent, rag_chain, history_chain, agent_executor, chats, nChats,
          history_objects, agent_histories, app_histories, appended, granted,
          lastAccess, nAccesses, lastNew, lastFault, nWrites,
          service, stream, health, nRequests,
          threads,
          memory, toolChats, nToolChats,
          lastDB, nDBOps>>

\* What the actions of one component leave alone.
OutsideStore == <<invokerVars, providerVars, factoryVars, agentVars, historyVars, serviceVars, raceVars, toolVars, dbVars>>
OutsideInvoker == <<storeVars, providerVars, factoryVars, agentVars, historyVars, serviceVars, raceVars, toolVars, dbVars>>
OutsideProvider == <<storeVars, invokerVars, factoryVars, agentVars, historyVars, serviceVars, raceVars, toolVars, dbVars>>
OutsideFactory == <<storeVars, invokerVars, providerVars, agentVars, historyVars, serviceVars, raceVars, toolVars, dbVars>>
OutsideAgent == <<storeVars, invokerVars, providerVars, factoryVars, historyVars, serviceVars, raceVars, toolVars, dbVars>>
\* the session registries write to the collection of the store section
OutsideHistory == <<invokerVars, providerVars, factoryVars, agentVars, serviceVars, raceVars, toolVars, dbVars>>
\* the service builds the provider registry and the agents
OutsideService == <<storeVars, invokerVars, agentVars, historyVars, raceVars, toolVars, dbVars>>

\* ------------------------------------------------- InMemoryChatHistory
MemGetMessages(k) == mem[k]

MemAppend(k, m) == [mem EXCEPT ![k] = Append(@, m)]

MemCleared(k) == [mem EXCEPT ![k] = <<>>]

\* ------------------------------------------- MemoryStore / RedisStore
UserPrefix == <<"U", "s", "e", "r", ":", " ">>
AIPrefix == <<"A", "I", ":", " ">>

\* message_type.capitalize() + ": "
CapitalizedPrefix(message_type) ==
    CASE message_type = "system" -> <<"S", "y", "s", "t", "e", "m", ":", " ">>
      [] message_type = "other" -> <<"O", "t", "h", "e", "r", ":", " ">>
      [] message_type = "human" -> <<"H", "u", "m", "a", "n", ":", " ">>
      [] OTHER -> <<"A", "i", ":", " ">>

\* RedisChatHistory.add_message: the message_type it passes on
RedisMessageType(m) ==
    CASE m.type = "human" -> "human"
      [] m.type = "ai" -> "ai"
      [] m.type = "system" -> "system"
      [] OTHER -> "other"

\* MemoryStore.save_message: the "Role: content" value it stores
FormatData(m, message_type) ==
    LET actual == CASE m.type = "human" -> "human"
                    [] m.type = "ai" -> "ai"
                    [] OTHER -> message_type
    IN  CASE actual = "human" -> UserPrefix \o m.content
          [] actual = "ai" -> AIPrefix \o m.content
          [] OTHER -> CapitalizedPrefix(actual) \o m.content

\* RedisStore.put: one item per key; a put on an existing key replaces its value.
\* Whether the backend keeps the item's created_at on a replace is its choice (keep).
StorePut(items, key, value, now, keep) ==
    LET old == {i \in items : i.key = key}
        created == IF keep /\ old # {}
                   THEN (CHOOSE i \in old : TRUE).created_at
                   ELSE now
    IN  (items \ old) \cup
        {[key |-> key, value |-> value, created_at |-> created, updated_at |-> now]}

\* RedisStore.list(namespace), taken in creation order
RECURSIVE StoreList(_)
StoreList(items) ==
    IF items = {} THEN <<>>
    ELSE LET first == CHOOSE i \in items : \A j \in items : i.created_at <= j.created_at
         IN  <<first>> \o StoreList(items \ {first})

\* RedisChatHistory.add_message -> MemoryStore.save_message
RedisSaved(u, s, m, keep) ==
    LET mt == RedisMessageType(m)
    IN  [redis EXCEPT ![u] =
            StorePut(@, <<s, mt>>, [data |-> FormatData(m, mt)], clock, keep)]

\* MemoryStore.get_messages(user_id, limit=limit)
MemoryStoreGetMessages(u, limit) ==
    LET result == StoreList(redis[u])
    IN  IF limit # NoLimit THEN Take(result, limit) ELSE result

\* sorted(xs, key=created_at): a stable insertion sort
RECURSIVE SortedByCreatedAt(_)
SortedByCreatedAt(xs) ==
    IF xs = <<>> THEN <<>>
    ELSE LET x == xs[Len(xs)]
             rest == SortedByCreatedAt(SubSeq(xs, 1, Len(xs) - 1))
             n == Cardinality({i \in 1..Len(rest) : rest[i].created_at <= x.created_at})
         IN  SubSeq(rest, 1, n) \o <<x>> \o SubSeq(rest, n + 1, Len(rest))

\* RedisChatHistory.get_messages: the parse of one stored value
ParseData(data) ==
    IF StartsWith(data, UserPrefix) THEN <<HumanMessage(DropPrefix(data, 6))>>
    ELSE IF StartsWith(data, AIPrefix) THEN <<AIMessage(DropPrefix(data, 4))>>
    ELSE <<>>

\* RedisChatHistory.get_messages: every item of the user, whatever its session
RedisGetMessages(u) ==
    LET sorted == SortedByCreatedAt(MemoryStoreGetMessages(u, NoLimit))
    IN  Flatten([i \in 1..Len(sorted) |-> ParseData(sorted[i].value.data)])

\* RedisChatHistory.clear -> MemoryStore.delete_messages(user_id)
RedisCleared(u) == [redis EXCEPT ![u] = {}]

\* ------------------------------ EnhancedMongoDBChatMessageHistory
\* message_to_dict, json.dumps
MessageToDict(m) == [type |-> m.type, data |-> [content |-> m.content, type |-> m.type]]
\* json.loads, messages_from_dict
MessageFromDict(d) == [type |-> d.type, content |-> d.data.content]

MongoMatches(d, u, s) == d.SessionId = s /\ d.UserId = u

MongoFind(u, s) == SelectSeq(mongo, LAMBDA d : MongoMatches(d, u, s))

\* The messages property: the whole log, or the history_size most recent.
MongoMessages(u, s, history_size) ==
    LET found == MongoFind(u, s)
        cursor == IF history_size = NoSize THEN found
                  ELSE Skip(found, Max(0, Len(found) - history_size))
    IN  [i \in 1..Len(cursor) |-> MessageFromDict(cursor[i].History)]

MongoInserted(u, s, m) ==
    Append(mongo, [SessionId |-> s, UserId |-> u, History |-> MessageToDict(m),
                   message_type |-> m.type, timestamp |-> clock])

\* delete_one in place of delete_many: only the oldest matching document goes
MongoClearedOne(u, s) ==
    LET hits == {i \in 1..Len(mongo) : MongoMatches(mongo[i], u, s)}
    IN  IF hits = {} THEN mongo
        ELSE LET i == CHOOSE h \in hits : \A g \in hits : h <= g
             IN  SubSeq(mongo, 1, i - 1) \o SubSeq(mongo, i + 1, Len(mongo))

MongoCleared(u, s) == SelectSeq(mongo, LAMBDA d : ~MongoMatches(d, u, s))

\* ------------------------------------------------------- MongoStore
\* MongoStore.save_message(user_id, session_id, message, message_type)
DocsSaved(u, s, m, message_type) ==
    Append(docs, [user_id |-> u, session_id |-> s, message_type |-> message_type,
                  message |-> m.content,
                  formatted_data |-> FormatData([type |-> "", content |-> m.content],
                                                message_type),
                  created_at |-> clock])

\* MongoStore.get_messages(user_id, session_id, limit)
MongoStoreGetMessages(u, s, limit) ==
    LET cursor == SortedByCreatedAt(
                      SelectSeq(docs, LAMBDA d : d.user_id = u /\ d.session_id = s))
    IN  IF limit # NoLimit THEN Take(cursor, limit) ELSE cursor

\* MongoStore.delete_messages(user_id, [session_id])
DocsDeleted(u, s) == SelectSeq(docs, LAMBDA d : ~(d.user_id = u /\ d.session_id = s))

\* --------------------------------------------- the HistoryStore contract
\* list: the log a variant lists for a key
List(b, k) ==
    CASE b = "memory" -> MemGetMessages(k)
      [] b = "redis" -> RedisGetMessages(k[1])
      [] b = "mongo" -> MongoMessages(k[1], k[2], NoSize)
      [] OTHER -> LET ds == MongoStoreGetMessages(k[1], k[2], NoLimit)
                  IN  [i \in 1..Len(ds) |->
                          [type |-> ds[i].message_type, content |-> ds[i].message]]

NoOp == [op |-> "none"]

StoreInit ==
    /\ backend \in Backends
    /\ mem = [k \in Keys |-> <<>>]
    /\ redis = [u \in Users |-> {}]
    /\ mongo = <<>>
    /\ docs = <<>>
    /\ clock = 1
    /\ lastOp = NoOp
    /\ nOps = 0

Recorded(op, k, m) ==
    /\ nOps < MaxOps
    /\ nOps' = nOps + 1
    /\ lastOp' = [op |-> op, key |-> k, msg |-> m, before |-> List(backend, k)]
    /\ UNCHANGED backend
    /\ UNCHANGED OutsideStore

\* InMemoryChatHistory.add_message
MemAddMessage(k, m) ==
    /\ backend = "memory"
    /\ mem' = MemAppend(k, m)
    /\ Recorded("add", k, m)
    /\ UNCHANGED <<redis, mongo, docs, clock>>

\* InMemoryChatHistory.clear
MemClear(k) ==
    /\ backend = "memory"
    /\ mem' = MemCleared(k)
    /\ Recorded("clear", k, NoOp)
    /\ UNCHANGED <<redis, mongo, docs, clock>>

\* RedisChatHistory.add_message
RedisAddMessage(k, m, keep) ==
    /\ backend = "redis"
    /\ redis' = RedisSaved(k[1], k[2], m, keep)
    /\ clock' = clock + 1
    /\ Recorded("add", k, m)
    /\ UNCHANGED <<mem, mongo, docs>>

\* RedisChatHistory.clear
RedisClear(k) ==
    /\ backend = "redis"
    /\ redis' = RedisCleared(k[1])
    /\ Recorded("clear", k, NoOp)
    /\ UNCHANGED <<mem, mongo, docs, clock>>

\* EnhancedMongoDBChatMessageHistory.add_message
MongoAddMessage(k, m) ==
    /\ backend = "mongo"
    /\ mongo' = MongoInserted(k[1], k[2], m)
    /\ clock' = clock + 1
    /\ Recorded("add", k, m)
    /\ UNCHANGED <<mem, redis, docs>>

\* EnhancedMongoDBChatMessageHistory.clear
MongoClear(k) ==
    /\ backend = "mongo"
    /\ mongo' = MongoCleared(k[1], k[2])
    /\ Recorded("clear", k, NoOp)
    /\ UNCHANGED <<mem, redis, docs, clock>>

\* MongoStore.save_message
MongoStoreSaveMessage(k, m) ==
    /\ backend = "mongostore"
    /\ docs' = DocsSaved(k[1], k[2], m, m.type)
    /\ clock' = clock + 1
    /\ Recorded("add", k, m)
    /\ UNCHANGED <<mem, redis, mongo>>

\* MongoStore.delete_messages
MongoStoreDeleteMessages(k) ==
    /\ backend = "mongostore"
    /\ docs' = DocsDeleted(k[1], k[2])
    /\ Recorded("clear", k, NoOp)
    /\ UNCHANGED <<mem, redis, mongo, clock>>

StoreNext ==
    \/ \E k \in Keys, m \in TestMessages : MemAddMessage(k, m)
    \/ \E k \in Keys : MemClear(k)
    \/ \E k \in Keys, m \in TestMessages, keep \in BOOLEAN : RedisAddMessage(k, m, keep)
    \/ \E k \in Keys : RedisClear(k)
    \/ \E k \in Keys, m \in TestMessages : MongoAddMessage(k, m)
    \/ \E k \in Keys : MongoClear(k)
    \/ \E k \in Keys, m \in TestMessages : MongoStoreSaveMessage(k, m)
    \/ \E k \in Keys : MongoStoreDeleteMessages(k)

\* ------------------------------------------ the history-aware invoker
CallIds == {1, 2}

None == "None"

Letters == <<"a", "b", "c", "d", "e", "f", "g", "h">>
\* The user text and the model's reply of the n-th turn, the i-th fragment of a stream.
QueryOf(n) == <<"q", Letters[n]>>
ReplyOf(n) == <<"r", Letters[n]>>
FragmentOf(i) == <<Letters[i]>>

\* config: None, {}, {"configurable": {}} or {"configurable": {"session_id": s}}
Configs ==
    {[kind |-> "none", session_id |-> None],
     [kind |-> "empty", session_id |-> None],
     [kind |-> "no_session_id", session_id |-> None]}
    \cup {[kind |-> "session", session_id |-> s] : s \in Sessions}

\* the check without its third disjunct: not config or "configurable" not in config
LacksSessionIdShallow(config) == config.kind \in {"none", "empty"}

\* not config or "configurable" not in config or "session_id" not in config["configurable"]
LacksSessionId(config) == config.kind # "session"

Str(text) == [t |-> "str", v |-> text]
Msg(m) == [t |-> "msg", v |-> m]
Lst(ms) == [t |-> "list", v |-> ms]
Absent == [t |-> "absent", v |-> <<>>]

\* input: a list of messages, a dict (its input key a string, a message, a list, or
\* absent), or something that is neither
ListInput(ms) == [kind |-> "list", value |-> Lst(ms)]
DictInput(value) == [kind |-> "dict", value |-> value]
OtherInput == [kind |-> "other", value |-> Absent]

InputsOf(q) ==
    {ListInput(<<HumanMessage(q)>>),
     ListInput(<<SystemMessage(q), HumanMessage(q)>>),
     DictInput(Str(q)),
     DictInput(Msg(HumanMessage(q))),
     DictInput(Lst(<<HumanMessage(q)>>)),
     DictInput(Absent),
     OtherInput}

\* response of the wrapped unit: a string, a message, a dict (with or without the
\* output key)
DictResponse(value) == [t |-> "dict", v |-> value]

ResponsesOf(r) ==
    {Str(r), Msg(AIMessage(r)), DictResponse(Str(r)), DictResponse(Msg(AIMessage(r))),
     DictResponse(Absent)}

Shapes == {"invoke", "ainvoke", "stream", "astream"}
StreamShapes == {"stream", "astream", "agent_stream"}
AgentShapes == {"agent_invoke", "agent_stream"}

IdleCall ==
    [pc |-> "idle", shape |-> "none", config |-> [kind |-> "none", session_id |-> None],
     input |-> OtherInput, session |-> None, history_messages |-> <<>>,
     messages |-> Absent, yielded |-> <<>>, full_response |-> <<>>,
     appended |-> <<>>, resolved |-> FALSE, invoked |-> FALSE, error |-> None,
     response |-> Absent, turn |-> 0]

Finished(c) == calls[c].pc \in {"idle", "done", "failed", "cancelled"}
InFlight(c) == ~Finished(c)

\* get_session_history(session_id): the session's store, created on first access
GetSessionHistory(st, s) ==
    IF s \in DOMAIN st THEN st ELSE [x \in DOMAIN st \cup {s} |-> IF x = s THEN <<>> ELSE st[x]]

StoreLog(st, s) == IF s \in DOMAIN st THEN st[s] ELSE <<>>

\* The messages the manager takes from its input
ExtractMessages(input) ==
    IF input.kind = "list" THEN input.value
    ELSE IF manager.input_messages_key # None /\ input.value # Absent THEN input.value
    ELSE Lst(<<>>)

\* "save the input messages": a list's BaseMessages, or the single BaseMessage
InputMessagesToSave(messages) ==
    IF messages.t = "list" THEN messages.v
    ELSE IF messages.t = "msg" THEN <<messages.v>>
    ELSE <<>>

\* add_ai_message(str) / add_message(BaseMessage) of a value; nothing for the rest
AsSaved(value) ==
    IF value.t = "str" THEN <<AIMessage(value.v)>>
    ELSE IF value.t = "msg" THEN <<value.v>>
    ELSE <<>>

\* "save the response message"
OutputToSave(response) ==
    IF manager.output_messages_key # None /\ response.t = "dict" /\ response.v # Absent
    THEN AsSaved(response.v)
    ELSE AsSaved(response)

\* InMemoryChatHistory.get_messages returns self.messages, the list itself: the
\* value put under the history key lists whatever the session log holds now
HistorySeen(c) == StoreLog(store, calls[c].session)

\* the messages put in place of the log instead of behind it
AddMessagesReplacing(st, s, ms) == [st EXCEPT ![s] = ms]

\* chat_history.add_message, for each message of ms in turn
AddMessages(st, s, ms) == [st EXCEPT ![s] = @ \o ms]

\* the fragment put in front of the collected text instead of behind it
AccumulateReversed(full_response, fragment) == fragment \o full_response

\* chunk.content if hasattr(chunk, 'content') else str(chunk), appended to the text
Accumulate(full_response, fragment) == full_response \o fragment

\* The user text of an input that is one user turn, the reply text of a response
IsUserTurn(input) ==
    \/ input.value.t \in {"str", "msg"}
    \/ input.value.t = "list" /\ Len(input.value.v) = 1

UserText(input) ==
    CASE input.value.t = "str" -> input.value.v
      [] input.value.t = "msg" -> input.value.v.content
      [] OTHER -> input.value.v[1].content

IsReply(response) ==
    \/ response.t \in {"str", "msg"}
    \/ response.t = "dict" /\ response.v # Absent /\ manager.output_messages_key # None

ReplyText(response) ==
    LET value == IF response.t = "dict" THEN response.v ELSE response
    IN  IF value.t = "str" THEN value.v ELSE value.v.content

Dirty == [ok |-> FALSE, log |-> <<>>]

TurnDone(e, s, q, r) ==
    [e EXCEPT ![s] = IF @.ok THEN [ok |-> TRUE, log |-> @.log \o <<HumanMessage(q), AIMessage(r)>>]
                     ELSE @]
TurnSpoiled(e, s) == [e EXCEPT ![s] = Dirty]

InvokerInit ==
    /\ manager \in {[input_messages_key |-> "input", output_messages_key |-> o,
                     history_messages_key |-> "chat_history"] : o \in {None, "output"}}
    /\ store = <<>>
    /\ chat_history = <<>>
    /\ calls = [c \in CallIds |-> IdleCall]
    /\ expected = [s \in Sessions |-> [ok |-> TRUE, log |-> <<>>]]
    /\ agentExpected = [s \in Sessions |-> [ok |-> TRUE, log |-> <<>>]]
    /\ nTurns = 0

\* A caller starts a call: its slot holds no call in flight.
Starts(c) ==
    /\ Finished(c)
    /\ nTurns < MaxTurns
    /\ nTurns' = nTurns + 1

\* ChatHistoryManager.invoke / ainvoke / stream / astream, up to the call of the
\* wrapped unit (for the generators: from the first next()).
ManagerBegin(c, shape, config, input) ==
    /\ Starts(c)
    /\ LET base == [IdleCall EXCEPT !.shape = shape, !.config = config, !.input = input,
                                     !.turn = nTurns + 1]
       IN  IF LacksSessionId(config)
           THEN /\ calls' = [calls EXCEPT ![c] =
                                [base EXCEPT !.pc = "failed", !.error = "missing_session_id"]]
                /\ UNCHANGED <<store, expected>>
           ELSE LET s == config.session_id
                    st == GetSessionHistory(store, s)
                    got == [base EXCEPT !.session = s, !.resolved = TRUE,
                                        !.history_messages = st[s]]
                    messages == ExtractMessages(input)
                    saved == InputMessagesToSave(messages)
                IN  IF input.kind \notin {"list", "dict"}
                    THEN /\ calls' = [calls EXCEPT ![c] =
                                         [got EXCEPT !.pc = "failed", !.error = "bad_input"]]
                         /\ store' = st
                         /\ expected' = TurnSpoiled(expected, s)
                    ELSE IF shape \in StreamShapes
                    THEN /\ calls' = [calls EXCEPT ![c] =
                                         [got EXCEPT !.pc = "streaming", !.messages = messages,
                                                     !.invoked = TRUE, !.appended = saved]]
                         /\ store' = AddMessages(st, s, saved)
                         /\ expected' = TurnSpoiled(expected, s)
                    ELSE /\ calls' = [calls EXCEPT ![c] =
                                         [got EXCEPT !.pc = "calling", !.messages = messages,
                                                     !.invoked = TRUE]]
                         /\ store' = st
                         /\ expected' = IF IsUserTurn(input) THEN expected
                                        ELSE TurnSpoiled(expected, s)
    /\ UNCHANGED OutsideInvoker
    /\ UNCHANGED <<manager, chat_history, agentExpected>>

\* invoke / ainvoke: the wrapped unit returns; the input messages are saved, then
\* the response.
ManagerReturn(c, response) ==
    /\ calls[c].pc = "calling"
    /\ calls[c].shape \in {"invoke", "ainvoke"}
    /\ LET call == calls[c]
           saved == InputMessagesToSave(call.messages) \o OutputToSave(response)
       IN  /\ store' = AddMessages(store, call.session, saved)
           /\ calls' = [calls EXCEPT ![c] =
                           [call EXCEPT !.pc = "done", !.response = response,
                                        !.appended = saved]]
           /\ expected' = IF IsReply(response)
                          THEN TurnDone(expected, call.session, UserText(call.input),
                                        ReplyText(response))
                          ELSE TurnSpoiled(expected, call.session)
    /\ UNCHANGED OutsideInvoker
    /\ UNCHANGED <<manager, chat_history, agentExpected, nTurns>>

\* the input messages saved before the call of the unit, so that they stay when it raises
ManagerRaiseSavingInput(c) ==
    /\ calls[c].pc = "calling"
    /\ calls[c].shape \in {"invoke", "ainvoke"}
    /\ store' = [store EXCEPT ![calls[c].session] =
                    @ \o InputMessagesToSave(calls[c].messages)]
    /\ calls' = [calls EXCEPT ![c] = [@ EXCEPT !.pc = "failed", !.error = "unit_raised"]]
    /\ expected' = TurnSpoiled(expected, calls[c].session)
    /\ UNCHANGED OutsideInvoker
    /\ UNCHANGED <<manager, chat_history, agentExpected, nTurns>>

\* invoke / ainvoke: the wrapped unit raises; nothing after the call runs.
ManagerRaise(c) ==
    /\ calls[c].pc = "calling"
    /\ calls[c].shape \in {"invoke", "ainvoke"}
    /\ calls' = [calls EXCEPT ![c] = [@ EXCEPT !.pc = "failed", !.error = "unit_raised"]]
    /\ expected' = TurnSpoiled(expected, calls[c].session)
    /\ UNCHANGED OutsideInvoker
    /\ UNCHANGED <<manager, store, chat_history, agentExpected, nTurns>>

\* stream / astream: the wrapped stream yields a chunk, which is passed on.
ManagerChunk(c) ==
    /\ calls[c].pc = "streaming"
    /\ calls[c].shape \in {"stream", "astream"}
    /\ Len(calls[c].yielded) < MaxFragments
    /\ LET fragment == FragmentOf(Len(calls[c].yielded) + 1)
       IN  calls' = [calls EXCEPT ![c] =
                        [@ EXCEPT !.yielded = Append(@, fragment),
                                  !.full_response = Accumulate(@, fragment)]]
    /\ UNCHANGED OutsideInvoker
    /\ UNCHANGED <<manager, store, chat_history, expected, agentExpected, nTurns>>

\* stream / astream: the wrapped stream is exhausted; the whole response is saved.
ManagerDrained(c) ==
    /\ calls[c].pc = "streaming"
    /\ calls[c].shape \in {"stream", "astream"}
    /\ LET call == calls[c]
           saved == <<AIMessage(call.full_response)>>
       IN  /\ store' = AddMessages(store, call.session, saved)
           /\ calls' = [calls EXCEPT ![c] =
                           [call EXCEPT !.pc = "done", !.appended = @ \o saved]]
    /\ UNCHANGED OutsideInvoker
    /\ UNCHANGED <<manager, chat_history, expected, agentExpected, nTurns>>

\* the save placed in a finally clause: a closed generator saves what it collected
ManagerCancelSaving(c) ==
    /\ calls[c].pc = "streaming"
    /\ calls[c].shape \in {"stream", "astream"}
    /\ calls[c].yielded # <<>>
    /\ LET call == calls[c]
           saved == <<AIMessage(call.full_response)>>
       IN  /\ store' = [store EXCEPT ![call.session] = @ \o saved]
           /\ calls' = [calls EXCEPT ![c] =
                           [call EXCEPT !.pc = "cancelled", !.appended = @ \o saved]]
    /\ UNCHANGED OutsideInvoker
    /\ UNCHANGED <<manager, chat_history, expected, agentExpected, nTurns>>

\* stream / astream: the caller closes the generator, suspended at a yield.
ManagerCancel(c) ==
    /\ calls[c].pc = "streaming"
    /\ calls[c].shape \in {"stream", "astream"}
    /\ calls[c].yielded # <<>>
    /\ calls' = [calls EXCEPT ![c] = [@ EXCEPT !.pc = "cancelled"]]
    /\ UNCHANGED OutsideInvoker
    /\ UNCHANGED <<manager, store, chat_history, expected, agentExpected, nTurns>>

\* stream / astream: the wrapped stream raises.
ManagerStreamRaise(c) ==
    /\ calls[c].pc = "streaming"
    /\ calls[c].shape \in {"stream", "astream"}
    /\ calls' = [calls EXCEPT ![c] = [@ EXCEPT !.pc = "failed", !.error = "unit_raised"]]
    /\ UNCHANGED OutsideInvoker
    /\ UNCHANGED <<manager, store, chat_history, expected, agentExpected, nTurns>>

\* ---------------------------------------------------------- BaseAgent
\* BaseAgent._get_session_history
AgentSessionHistory(h, s) ==
    IF s \in DOMAIN h THEN h ELSE [x \in DOMAIN h \cup {s} |-> IF x = s THEN <<>> ELSE h[x]]

\* "update the session history": the query, then the answer
AgentTurnSaved(h, s, query, answer) ==
    [h EXCEPT ![s] = Append(Append(@, HumanMessage(query)), AIMessage(answer))]

\* BaseAgent.invoke / stream up to the call of the model
AgentBegin(c, shape, s, query) ==
    /\ Starts(c)
    /\ chat_history' = AgentSessionHistory(chat_history, s)
    /\ calls' = [calls EXCEPT ![c] =
                    [IdleCall EXCEPT !.shape = shape, !.session = s, !.resolved = TRUE,
                                     !.input = DictInput(Str(query)), !.invoked = TRUE,
                                     !.history_messages = StoreLog(chat_history, s),
                                     !.turn = nTurns + 1,
                                     !.pc = IF shape = "agent_stream" THEN "streaming"
                                            ELSE "calling"]]
    /\ agentExpected' = IF shape = "agent_stream" THEN TurnSpoiled(agentExpected, s)
                        ELSE agentExpected
    /\ UNCHANGED OutsideInvoker
    /\ UNCHANGED <<manager, store, expected>>

\* BaseAgent.invoke: the model answers
AgentReturn(c, answer) ==
    /\ calls[c].pc = "calling"
    /\ calls[c].shape = "agent_invoke"
    /\ LET call == calls[c]
           query == call.input.value.v
       IN  /\ chat_history' = AgentTurnSaved(chat_history, call.session, query, answer)
           /\ calls' = [calls EXCEPT ![c] =
                           [call EXCEPT !.pc = "done", !.response = Str(answer),
                                        !.appended = <<HumanMessage(query), AIMessage(answer)>>]]
           /\ agentExpected' = TurnDone(agentExpected, call.session, query, answer)
    /\ UNCHANGED OutsideInvoker
    /\ UNCHANGED <<manager, store, expected, nTurns>>

\* BaseAgent.invoke: the retriever or the model raises
AgentRaise(c) ==
    /\ calls[c].pc = "calling"
    /\ calls[c].shape = "agent_invoke"
    /\ calls' = [calls EXCEPT ![c] = [@ EXCEPT !.pc = "failed", !.error = "unit_raised"]]
    /\ agentExpected' = TurnSpoiled(agentExpected, calls[c].session)
    /\ UNCHANGED OutsideInvoker
    /\ UNCHANGED <<manager, store, chat_history, expected, nTurns>>

\* BaseAgent.stream: a chunk of the model's stream is collected and yielded
AgentChunk(c) ==
    /\ calls[c].pc = "streaming"
    /\ calls[c].shape = "agent_stream"
    /\ Len(calls[c].yielded) < MaxFragments
    /\ LET fragment == FragmentOf(Len(calls[c].yielded) + 1)
       IN  calls' = [calls EXCEPT ![c] =
                        [@ EXCEPT !.yielded = Append(@, fragment),
                                  !.full_response = Accumulate(@, fragment)]]
    /\ UNCHANGED OutsideInvoker
    /\ UNCHANGED <<manager, store, chat_history, expected, agentExpected, nTurns>>

\* BaseAgent.stream: the model's stream is exhausted; the turn is saved
AgentDrained(c) ==
    /\ calls[c].pc = "streaming"
    /\ calls[c].shape = "agent_stream"
    /\ LET call == calls[c]
           query == call.input.value.v
       IN  /\ chat_history' = AgentTurnSaved(chat_history, call.session, query,
                                             call.full_response)
           /\ calls' = [calls EXCEPT ![c] =
                           [call EXCEPT !.pc = "done",
                                        !.appended = <<HumanMessage(query),
                                                       AIMessage(call.full_response)>>]]
    /\ UNCHANGED OutsideInvoker
    /\ UNCHANGED <<manager, store, expected, agentExpected, nTurns>>

\* BaseAgent.stream: the caller closes the generator, suspended at a yield
AgentCancel(c) ==
    /\ calls[c].pc = "streaming"
    /\ calls[c].shape = "agent_stream"
    /\ calls[c].yielded # <<>>
    /\ calls' = [calls EXCEPT ![c] = [@ EXCEPT !.pc = "cancelled"]]
    /\ UNCHANGED OutsideInvoker
    /\ UNCHANGED <<manager, store, chat_history, expected, agentExpected, nTurns>>

\* BaseAgent.stream: the model's stream raises
AgentStreamRaise(c) ==
    /\ calls[c].pc = "streaming"
    /\ calls[c].shape = "agent_stream"
    /\ calls' = [calls EXCEPT ![c] = [@ EXCEPT !.pc = "failed", !.error = "unit_raised"]]
    /\ UNCHANGED OutsideInvoker
    /\ UNCHANGED <<manager, store, chat_history, expected, agentExpected, nTurns>>

\* One turn at a time: a call starts only when no call is in flight.
NoneInFlight == \A c \in CallIds : Finished(c)

\* The sequential specification: one caller issues turn after turn, through one
\* entry point and in one session.
Callers == {1}
TurnSessions == {"s1"}
TurnConfigs == {config \in Configs : config.session_id \in TurnSessions \cup {None}}
SameEntryPoint(c, shape) == calls[c].shape \in {"none", shape}

InvokerNext ==
    \/ \E c \in Callers, shape \in Shapes, config \in TurnConfigs,
          input \in InputsOf(QueryOf(nTurns + 1)) :
            NoneInFlight /\ SameEntryPoint(c, shape) /\ ManagerBegin(c, shape, config, input)
    \/ \E c \in Callers : calls[c].pc = "calling" /\
          \E response \in ResponsesOf(ReplyOf(calls[c].turn)) : ManagerReturn(c, response)
    \/ \E c \in Callers : ManagerRaise(c)
    \/ \E c \in Callers : ManagerChunk(c)
    \/ \E c \in Callers : ManagerDrained(c)
    \/ \E c \in Callers : ManagerCancel(c)
    \/ \E c \in Callers : ManagerStreamRaise(c)
    \/ \E c \in Callers, shape \in AgentShapes, s \in TurnSessions :
            NoneInFlight /\ SameEntryPoint(c, shape) /\ AgentBegin(c, shape, s, QueryOf(nTurns + 1))
    \/ \E c \in Callers : calls[c].pc = "calling" /\ AgentReturn(c, ReplyOf(calls[c].turn))
    \/ \E c \in Callers : AgentRaise(c)
    \/ \E c \in Callers : AgentChunk(c)
    \/ \E c \in Callers : AgentDrained(c)
    \/ \E c \in Callers : AgentCancel(c)
    \/ \E c \in Callers : AgentStreamRaise(c)

\* Overlapping turns: two callers run ainvoke / astream on one session of one
\* manager. A coroutine runs without interruption up to its next await, so the
\* steps of ainvoke and astream between two awaits are one step each.
OverlapCallers == CallIds
OverlapShapes == {"ainvoke", "astream"}
OverlapSession == "s1"
OverlapConfig == [kind |-> "session", session_id |-> OverlapSession]
OverlapInputs(q) == {ListInput(<<HumanMessage(q)>>), DictInput(Msg(HumanMessage(q)))}
OverlapResponses(r) == {Str(r), Msg(AIMessage(r))}

OverlapNext ==
    \/ \E c \in OverlapCallers, shape \in OverlapShapes,
          input \in OverlapInputs(QueryOf(nTurns + 1)) :
            ManagerBegin(c, shape, OverlapConfig, input)
    \/ \E c \in OverlapCallers : calls[c].pc = "calling" /\
          \E response \in OverlapResponses(ReplyOf(calls[c].turn)) : ManagerReturn(c, response)
    \/ \E c \in OverlapCallers : ManagerChunk(c)
    \/ \E c \in OverlapCallers : ManagerDrained(c)

\* ------------------------------------------------- the provider registry
MaxRegistrations == 1

\* The providers the configuration knows (_DEFAULT_PROVIDER_CONFIGS), in dict order
ProviderNames == <<"a", "b", "qwen">>
ProviderNameSet == {ProviderNames[i] : i \in 1..Len(ProviderNames)}

\* The names a caller may ask for: none, a configured one, one nobody configured
RequestNames == ProviderNameSet \cup {None, "zz"}

\* not name: None or the empty string
Falsy(name) == name \in {None, ""}

\* Config.get_all_ai_configs: the configs that carry an api_key, in order
GetAllAIConfigs == SelectSeq(ProviderNames, LAMBDA n : n \in api_keys)

\* Config.get_configured_providers
GetConfiguredProviders == GetAllAIConfigs

\* provider_class(provider_name, provider_config)
ProviderInstance(name) ==
    [name |-> name, api_key |-> name \in api_keys, has_models |-> discovered[name]]

NoProvider == [name |-> None, api_key |-> FALSE, has_models |-> FALSE]

\* the model list left unchecked: bool(api_key)
ProviderValidateConfigKeyOnly(provider) == provider.api_key

\* OpenAIAdaptationProvider.validate_config: bool(api_key and has_models)
ProviderValidateConfig(provider) == provider.api_key /\ provider.has_models

\* self._providers[name] = provider, in a dict that keeps insertion order
ProvidersPut(provs, name, provider) ==
    IF \E i \in 1..Len(provs) : provs[i].name = name
    THEN [i \in 1..Len(provs) |-> IF provs[i].name = name THEN provider ELSE provs[i]]
    ELSE Append(provs, provider)

\* self._providers.get(name)
ProvidersGet(provs, name) ==
    IF \E i \in 1..Len(provs) : provs[i].name = name
    THEN provs[CHOOSE i \in 1..Len(provs) : provs[i].name = name]
    ELSE NoProvider

\* list_configured_providers / list_providers
ListConfiguredProviders(provs) == {provs[i].name : i \in 1..Len(provs)}

\* the default taken only from a registration flagged is_default
RegisteredOnlyIfFlagged(reg, name, provider, is_default) ==
    [providers |-> ProvidersPut(reg.providers, name, provider),
     default_provider |-> IF is_default THEN name ELSE reg.default_provider]

\* the is_default flag ignored: only the first registration sets the default
RegisteredFirstWins(reg, name, provider, is_default) ==
    [providers |-> ProvidersPut(reg.providers, name, provider),
     default_provider |-> IF reg.default_provider = None THEN name
                          ELSE reg.default_provider]

\* ModelProviderManager.register_provider
Registered(reg, name, provider, is_default) ==
    [providers |-> ProvidersPut(reg.providers, name, provider),
     default_provider |-> IF is_default \/ reg.default_provider = None THEN name
                          ELSE reg.default_provider]

\* The loop of auto_register_providers_from_config over the configs
RECURSIVE AutoRegistered(_, _)
AutoRegistered(reg, configs) ==
    IF configs = <<>> THEN reg
    ELSE LET name == Head(configs)
             next == IF name \in DOMAIN discovered
                        /\ ProviderValidateConfig(ProviderInstance(name))
                     THEN Registered(reg, name, ProviderInstance(name),
                                     name = DEFAULT_AI_PROVIDER)
                     ELSE reg
         IN  AutoRegistered(next, Tail(configs))

\* an unregistered name answered with the default provider
GetProviderFallingBack(name) ==
    LET wanted == IF Falsy(name) \/ name \notin ListConfiguredProviders(providers)
                  THEN default_provider ELSE name
    IN  IF Falsy(wanted) THEN NoProvider ELSE ProvidersGet(providers, wanted)

\* ModelProviderManager.get_provider
GetProvider(name) ==
    LET wanted == IF Falsy(name) THEN default_provider ELSE name
    IN  IF Falsy(wanted) THEN NoProvider ELSE ProvidersGet(providers, wanted)

\* ModelProviderManager.get_chat_model: the provider whose model is returned, or
\* the ValueError raised
GetChatModel(provider_name) ==
    LET provider == GetProvider(provider_name)
    IN  IF provider = NoProvider
        THEN [raised |-> "provider_not_found", provider |-> None]
        ELSE [raised |-> None, provider |-> provider.name]

\* controller.chat: request.provider_name if it is a configured provider, else the
\* default provider
ResolveProviderName(name) ==
    IF name \in ListConfiguredProviders(providers) THEN name ELSE default_provider

\* Provider classes found in the package: QwenProvider, and classes for the other
\* names or none, each with AVAILABLE_MODELS or without
DiscoveredChoices ==
    {d \in UNION {[names -> BOOLEAN] : names \in SUBSET ProviderNameSet} :
        "qwen" \in DOMAIN d /\ d["qwen"]}

ProviderInit ==
    /\ api_keys \in SUBSET ProviderNameSet
    /\ DEFAULT_AI_PROVIDER \in ProviderNameSet
    /\ discovered \in DiscoveredChoices
    /\ providers = <<>>
    /\ default_provider = None
    /\ registrations = <<>>
    /\ lastGet = [op |-> "none"]
    /\ phase = "config"

\* Config.validate_config
ValidateConfig ==
    /\ phase = "config"
    /\ LET providers_configured == GetConfiguredProviders
       IN  IF providers_configured = <<>>
           THEN /\ phase' = "failed"
                /\ UNCHANGED DEFAULT_AI_PROVIDER
           ELSE /\ DEFAULT_AI_PROVIDER' =
                       IF DEFAULT_AI_PROVIDER \notin
                              {providers_configured[i] : i \in 1..Len(providers_configured)}
                       THEN providers_configured[1] ELSE DEFAULT_AI_PROVIDER
                /\ UNCHANGED phase
    /\ UNCHANGED <<api_keys, discovered, providers, default_provider, registrations, lastGet>>
    /\ UNCHANGED OutsideProvider

\* ModelProviderManager.__init__(auto_register_providers)
Construct(auto_register_providers) ==
    /\ phase = "config"
    /\ LET empty == [providers |-> <<>>, default_provider |-> None]
           reg == IF auto_register_providers THEN AutoRegistered(empty, GetAllAIConfigs)
                  ELSE empty
       IN  /\ providers' = reg.providers
           /\ default_provider' = reg.default_provider
    /\ phase' = IF auto_register_providers THEN "auto" ELSE "manual"
    /\ UNCHANGED <<api_keys, DEFAULT_AI_PROVIDER, discovered, registrations, lastGet>>
    /\ UNCHANGED OutsideProvider

\* An adapter built by the caller: usable, without credential, or without models
UsableAdapter(name) == [name |-> name, api_key |-> TRUE, has_models |-> TRUE]
Adapters(name) ==
    {UsableAdapter(name),
     [name |-> name, api_key |-> FALSE, has_models |-> TRUE],
     [name |-> name, api_key |-> TRUE, has_models |-> FALSE]}

\* register_provider(name, provider, is_default), called on the manager
RegisterProvider(name, provider, is_default) ==
    /\ phase \in {"auto", "manual"}
    /\ LET reg == Registered([providers |-> providers, default_provider |-> default_provider],
                             name, provider, is_default)
       IN  /\ providers' = reg.providers
           /\ default_provider' = reg.default_provider
    /\ registrations' = Append(registrations, [name |-> name, is_default |-> is_default])
    /\ lastGet' = [op |-> "register_provider"]
    /\ UNCHANGED <<api_keys, DEFAULT_AI_PROVIDER, discovered, phase>>
    /\ UNCHANGED OutsideProvider

\* get_chat_model(provider_name), called on the manager
GetChatModelCall(provider_name) ==
    /\ phase \in {"auto", "manual"}
    /\ lastGet' = [op |-> "get_chat_model", provider_name |-> provider_name,
                   result |-> GetChatModel(provider_name)]
    /\ UNCHANGED <<api_keys, DEFAULT_AI_PROVIDER, discovered, providers, default_provider,
                   registrations, phase>>
    /\ UNCHANGED OutsideProvider

ProviderNext ==
    \/ ValidateConfig
    \/ \E auto_register_providers \in BOOLEAN : Construct(auto_register_providers)
    \/ \E name \in ProviderNameSet, is_default \in BOOLEAN :
          /\ Len(registrations) < MaxRegistrations
          /\ RegisterProvider(name, UsableAdapter(name), is_default)
    \/ \E provider_name \in RequestNames : GetChatModelCall(provider_name)

\* The registry driven through register_provider: any adapter, any name, on a
\* manager constructed empty or auto-registered from a configuration in which the
\* class of "b" declares no models.
MaxRegisterCalls == 2

RegistryInit ==
    /\ api_keys \in SUBSET ProviderNameSet
    /\ DEFAULT_AI_PROVIDER \in ProviderNameSet
    /\ discovered = [n \in ProviderNameSet |-> n # "b"]
    /\ providers = <<>>
    /\ default_provider = None
    /\ registrations = <<>>
    /\ lastGet = [op |-> "none"]
    /\ phase = "config"

RegistryNext ==
    \/ \E auto_register_providers \in BOOLEAN : Construct(auto_register_providers)
    \/ \E name \in ProviderNameSet, is_default \in BOOLEAN :
          \E provider \in Adapters(name) :
             /\ Len(registrations) < MaxRegisterCalls
             /\ RegisterProvider(name, provider, is_default)

\* ------------------------------------------------------- AgentFactory
MaxCreates == 2

\* Agent types asked for: the two AGENT_TYPE tags, one in capitals, one unknown
AgentTypes == {"writing", "Writing", "db", "foo"}
DiscoverableAgents == {"writing", "db"}

\* agent_type.lower()
Lower(agent_type) == IF agent_type = "Writing" THEN "writing" ELSE agent_type

\* The config dicts callers hold (a dict is its keys in insertion order; the value
\* of a key is fixed), and None
ConfigIds == {1, 2}
NoConfig == 0
ManagerKey == "model_provider_manager"

\* str(config): the dict's items in insertion order, or "None"
ConfigStr(objects, config) == IF config = NoConfig THEN <<None>> ELSE objects[config]

\* the cache keyed by the agent type alone
ConfigKeyTypeOnly(objects, agent_type, config) == <<agent_type, <<None>>>>

\* f"{agent_type}_{str(config)}"
ConfigKey(objects, agent_type, config) == <<agent_type, ConfigStr(objects, config)>>

\* the class looked up without the fallback to 'writing'
AgentClassStrict(agent_type) ==
    IF Lower(agent_type) \in discovered_agents THEN Lower(agent_type) ELSE None

\* agents.get(agent_type.lower()), and agents.get('writing') when that finds none
AgentClass(agent_type) ==
    IF Lower(agent_type) \in discovered_agents THEN Lower(agent_type)
    ELSE IF "writing" \in discovered_agents THEN "writing"
    ELSE None

\* config['model_provider_manager'] = model_provider_manager
WithManager(keys) == IF \E i \in 1..Len(keys) : keys[i] = ManagerKey THEN keys
                     ELSE Append(keys, ManagerKey)

\* AgentFactory.create_agent: the factory's state after the call and its outcome.
\* constructs tells whether agent_class(config) returns or raises.
CreateAgent(fac, agent_type, config, model_provider_manager, constructs) ==
    LET config_key == ConfigKey(fac.config_objects, agent_type, config)
        hit == \E e \in fac.instances : e.key = config_key
        agent_class == AgentClass(agent_type)
        passed == IF config = NoConfig THEN <<>> ELSE fac.config_objects[config]
        keys == IF model_provider_manager THEN WithManager(passed) ELSE passed
        mutated == IF config # NoConfig
                   THEN [fac.config_objects EXCEPT ![config] = keys]
                   ELSE fac.config_objects
        instance == Len(fac.made) + 1
    IN  IF hit
        THEN [fac EXCEPT !.outcome = "cached",
                         !.instance = (CHOOSE e \in fac.instances : e.key = config_key).instance]
        ELSE IF agent_class = None
        THEN [fac EXCEPT !.outcome = "unsupported_type", !.instance = 0]
        ELSE IF ~constructs
        THEN [fac EXCEPT !.config_objects = mutated,
                         !.outcome = "constructor_raised", !.instance = 0]
        ELSE [fac EXCEPT !.config_objects = mutated,
                         !.instances = @ \cup {[key |-> config_key, instance |-> instance]},
                         !.made = Append(@, [class |-> agent_class, config |-> config,
                                             keys |-> keys]),
                         !.outcome = "created", !.instance = instance]

Factory == [config_objects |-> config_objects, instances |-> instances, made |-> made,
            outcome |-> None, instance |-> 0]

FactoryInit ==
    /\ discovered_agents \in SUBSET DiscoverableAgents
    /\ config_objects = [c \in ConfigIds |-> IF c = 1 THEN <<>> ELSE <<"system_prompt">>]
    /\ instances = {}
    /\ made = <<>>
    /\ lastCreate = [op |-> "none", calls |-> 0]
    /\ multi = [constructed |-> FALSE, agents |-> <<>>, default_agent |-> None,
                agent_configs |-> <<>>, failing |-> {}]

\* AgentFactory.create_agent(agent_type, config, model_provider_manager)
CreateAgentCall(agent_type, config, model_provider_manager, constructs) ==
    /\ LET after == CreateAgent(Factory, agent_type, config, model_provider_manager,
                                constructs)
       IN  /\ config_objects' = after.config_objects
           /\ instances' = after.instances
           /\ made' = after.made
           /\ lastCreate' = [op |-> "create_agent", calls |-> lastCreate.calls + 1,
                             agent_type |-> agent_type, config |-> config,
                             config_str |-> ConfigStr(config_objects, config),
                             outcome |-> after.outcome, instance |-> after.instance,
                             before |-> instances]
    /\ UNCHANGED <<discovered_agents, multi>>
    /\ UNCHANGED OutsideFactory

\* agent_configs of the MultiAgentManager: agent names, each with its config, in
\* dict order
ConfigOf(name) == IF name = "writing" THEN 1 ELSE IF name = "db" THEN 2 ELSE NoConfig
AgentNames == {"writing", "db", "foo"}
AgentConfigs ==
    {order \in UNION {[1..n -> AgentNames] : n \in 0..Cardinality(AgentNames)} :
        \A i, j \in 1..Len(order) : i # j => order[i] # order[j]}

\* the loop without its try/except: the first failing agent ends it
RECURSIVE MultiAgentLoopAborting(_, _, _, _, _)
MultiAgentLoopAborting(fac, m, todo, model_provider_manager, failing) ==
    IF todo = <<>> THEN [fac |-> fac, multi |-> m]
    ELSE LET agent_name == Head(todo)
             after == CreateAgent(fac, agent_name, ConfigOf(agent_name),
                                  model_provider_manager, agent_name \notin failing)
         IN  IF after.outcome \in {"cached", "created"}
             THEN MultiAgentLoopAborting(
                      after,
                      [m EXCEPT !.agents = Append(@, [name |-> agent_name,
                                                      instance |-> after.instance]),
                                !.default_agent = IF @ = None THEN agent_name ELSE @],
                      Tail(todo), model_provider_manager, failing)
             ELSE [fac |-> after, multi |-> m]

\* The loop of MultiAgentManager.__init__ over agent_configs.items(); failing is
\* the set of names whose constructor raises when called.
RECURSIVE MultiAgentLoop(_, _, _, _, _)
MultiAgentLoop(fac, m, todo, model_provider_manager, failing) ==
    IF todo = <<>> THEN [fac |-> fac, multi |-> m]
    ELSE LET agent_name == Head(todo)
             after == CreateAgent(fac, agent_name, ConfigOf(agent_name),
                                  model_provider_manager, agent_name \notin failing)
             next == IF after.outcome \in {"cached", "created"}
                     THEN [m EXCEPT !.agents = Append(@, [name |-> agent_name,
                                                          instance |-> after.instance]),
                                    !.default_agent = IF @ = None THEN agent_name ELSE @]
                     ELSE m
         IN  MultiAgentLoop(after, next, Tail(todo), model_provider_manager, failing)

\* MultiAgentManager.get_available_agents
GetAvailableAgents == {multi.agents[i].name : i \in 1..Len(multi.agents)}

\* MultiAgentManager.get_default_agent: the instance, or 0 for None
GetDefaultAgent ==
    IF multi.default_agent # None /\ \E i \in 1..Len(multi.agents) :
                                        multi.agents[i].name = multi.default_agent
    THEN multi.agents[CHOOSE i \in 1..Len(multi.agents) :
                         multi.agents[i].name = multi.default_agent].instance
    ELSE 0

\* MultiAgentManager(agent_configs, model_provider_manager)
MultiAgentManagerInit(agent_configs, model_provider_manager, failing) ==
    /\ ~multi.constructed
    /\ LET after == MultiAgentLoop(Factory,
                                   [constructed |-> TRUE, agents |-> <<>>,
                                    default_agent |-> None, agent_configs |-> agent_configs,
                                    failing |-> failing],
                                   agent_configs, model_provider_manager, failing)
       IN  /\ multi' = after.multi
           /\ config_objects' = after.fac.config_objects
           /\ instances' = after.fac.instances
           /\ made' = after.fac.made
    /\ UNCHANGED <<discovered_agents, lastCreate>>
    /\ UNCHANGED OutsideFactory

MaxEarlierCreates == 1

\* create_agent called by any caller, any number of times
FactoryNext ==
    \E agent_type \in AgentTypes, config \in ConfigIds \cup {NoConfig},
       model_provider_manager \in BOOLEAN, constructs \in BOOLEAN :
         /\ lastCreate.calls < MaxCreates
         /\ CreateAgentCall(agent_type, config, model_provider_manager, constructs)

\* Start-up: a MultiAgentManager is constructed, on a factory that is fresh or
\* has served one create_agent call
MultiNext ==
    \/ \E agent_type \in AgentNames, constructs \in BOOLEAN :
          /\ lastCreate.calls < MaxEarlierCreates
          /\ ~multi.constructed
          /\ CreateAgentCall(agent_type, ConfigOf(agent_type), FALSE, constructs)
    \/ \E agent_configs \in AgentConfigs, model_provider_manager \in BOOLEAN,
          failing \in SUBSET AgentNames :
            MultiAgentManagerInit(agent_configs, model_provider_manager, failing)

\* ------------------------------------------------ WritingAgent and DBAgent
\* web/agent/writing_agent.py and web/agent/db_agent.py.  A chain is
\* modelled by the chat model it is bound to; a chat model by the provider and
\* model name it was resolved from.

MaxChats == 2
MaxChunks == 1

ChatCallers == {1, 2}
AgentKinds == {"writing", "db"}
Methods == {"chat", "stream_chat", "achat", "astream_chat"}
Streaming == {"stream_chat", "astream_chat"}
Async == {"achat", "astream_chat"}
OverrideProviders == {None, "a"}
OverrideModels == {None, "x"}

\* get_chat_model(provider_name, model_name): the handle of that provider's model
ChatModel(provider_name, model_name) ==
    [provider_name |-> provider_name, model_name |-> model_name]
\* get_chat_model(): what the agent's constructor binds its chain to
DefaultModel == ChatModel(None, None)
\* a local that no assignment of the call has reached yet
Unbound == ChatModel("unbound", "unbound")

\* `if provider_name or model_name:`
Overrides(provider_name, model_name) == ~Falsy(provider_name) \/ ~Falsy(model_name)

\* the text of the message returned or yielded by the except branches
ErrorText == "sorry, I ran into an error while handling your question"
Apology == <<ErrorText, "U+3002">>
ApologyAsciiStop == <<ErrorText, "U+002E">>
\* the literal of each except branch: WritingAgent.astream_chat ends it with an
\* ASCII full stop, the seven others with the ideographic one
ExceptText(kind, method) ==
    IF kind = "writing" /\ method = "astream_chat" THEN ApologyAsciiStop ELSE Apology

Content == <<"content">>

IdleChat == [pc |-> "idle", method |-> "none", provider_name |-> None,
             model_name |-> None, chat_model |-> Unbound, invoked |-> Unbound,
             out |-> <<>>, failed |-> FALSE, result |-> "none"]

AgentInit ==
    /\ agent \in AgentKinds
    /\ rag_chain = DefaultModel
    /\ history_chain = DefaultModel
    /\ agent_executor = DefaultModel
    /\ chats = [c \in ChatCallers |-> IdleChat]
    /\ nChats = 0

\* The body of an async method runs on the event loop: from its entry to its
\* first await (the chain's ainvoke/astream) no other coroutine runs.  Calls of
\* the sync methods run on worker threads and interleave freely.
BeforeFirstAwait == {"rag", "executor", "invoke"}
MayStep(c) ==
    chats[c].method \in Async =>
        \A d \in ChatCallers \ {c} :
            chats[d].method \in Async => chats[d].pc \notin BeforeFirstAwait

\* the except branch: chat/achat return the text, the streams yield it and end
Except(c) ==
    chats' = [chats EXCEPT ![c].pc = "done", ![c].failed = TRUE,
                           ![c].out = Append(@, ExceptText(agent, chats[c].method)),
                           ![c].result = IF chats[c].method \in Streaming
                                         THEN "ended" ELSE "returned"]

\* a caller enters chat, stream_chat, achat or astream_chat
ChatBegin(c, method, provider_name, model_name) ==
    /\ chats[c].pc \in {"idle", "done"}
    /\ chats' = [chats EXCEPT ![c] = [IdleChat EXCEPT !.pc = "resolve", !.method = method,
                                        !.provider_name = provider_name,
                                        !.model_name = model_name]]
    /\ nChats' = nChats + 1
    /\ UNCHANGED <<agent, rag_chain, history_chain, agent_executor>>
    /\ UNCHANGED OutsideAgent

\* `chat_model = self.get_chat_model(provider_name, model_name)`, or nothing to
\* resolve; raised selects the call raising
WritingResolve(c, raised) ==
    /\ agent = "writing" /\ chats[c].pc = "resolve" /\ MayStep(c)
    /\ IF ~Overrides(chats[c].provider_name, chats[c].model_name)
       THEN /\ ~raised
            /\ chats' = [chats EXCEPT ![c].pc = "invoke"]
       ELSE IF raised
       THEN Except(c)
       ELSE chats' = [chats EXCEPT ![c].pc = "rag",
                         ![c].chat_model = ChatModel(chats[c].provider_name,
                                                     chats[c].model_name)]
    /\ UNCHANGED <<agent, rag_chain, history_chain, agent_executor, nChats>>
    /\ UNCHANGED OutsideAgent

\* _initialize_rag_components_with_model: `self.rag_chain = create_retrieval_chain(..)`
WritingInitRag(c, raised) ==
    /\ agent = "writing" /\ chats[c].pc = "rag" /\ MayStep(c)
    /\ IF raised
       THEN Except(c) /\ UNCHANGED rag_chain
       ELSE /\ rag_chain' = chats[c].chat_model
            /\ chats' = [chats EXCEPT ![c].pc = "executor"]
    /\ UNCHANGED <<agent, history_chain, agent_executor, nChats>>
    /\ UNCHANGED OutsideAgent

\* _initialize_agent_executor: `self.history_chain = RunnableWithMessageHistory(self.rag_chain, ..)`
WritingInitExecutor(c) ==
    /\ agent = "writing" /\ chats[c].pc = "executor" /\ MayStep(c)
    /\ history_chain' = rag_chain
    /\ chats' = [chats EXCEPT ![c].pc = "invoke"]
    /\ UNCHANGED <<agent, rag_chain, agent_executor, nChats>>
    /\ UNCHANGED OutsideAgent

\* `self.history_chain.invoke(..)` and its stream/ainvoke/astream forms: the
\* chain the attribute holds now is the one invoked
WritingInvoke(c) ==
    /\ agent = "writing" /\ chats[c].pc = "invoke" /\ MayStep(c)
    /\ chats' = [chats EXCEPT ![c].pc = "running", ![c].invoked = history_chain]
    /\ UNCHANGED <<agent, rag_chain, history_chain, agent_executor, nChats>>
    /\ UNCHANGED OutsideAgent

\* DBAgent: the executor is a local of the call, a new one for an override
DBExecutor(c) ==
    IF Overrides(chats[c].provider_name, chats[c].model_name)
    THEN ChatModel(chats[c].provider_name, chats[c].model_name)
    ELSE agent_executor

\* DBAgent's prelude up to `agent_executor.invoke(..)`; raised selects
\* get_chat_model or _create_agent_executor raising
DBInvoke(c, raised) ==
    /\ agent = "db" /\ chats[c].pc = "resolve"
    /\ IF raised
       THEN /\ Overrides(chats[c].provider_name, chats[c].model_name)
            /\ Except(c)
       ELSE chats' = [chats EXCEPT ![c].pc = "running",
                         ![c].chat_model =
                             IF Overrides(chats[c].provider_name, chats[c].model_name)
                             THEN DBExecutor(c) ELSE Unbound,
                         ![c].invoked = DBExecutor(c)]
    /\ UNCHANGED <<agent, rag_chain, history_chain, agent_executor, nChats>>
    /\ UNCHANGED OutsideAgent

\* the chain answers: chat/achat return the content
ChatReturn(c) ==
    /\ chats[c].pc = "running" /\ chats[c].method \notin Streaming
    /\ chats' = [chats EXCEPT ![c].pc = "done", ![c].out = <<Content>>,
                              ![c].result = "returned"]
    /\ UNCHANGED <<agent, rag_chain, history_chain, agent_executor, nChats>>
    /\ UNCHANGED OutsideAgent

\* the chain yields a chunk: the stream yields its content
ChatChunk(c) ==
    /\ chats[c].pc = "running" /\ chats[c].method \in Streaming
    /\ Len(chats[c].out) < MaxChunks
    /\ chats' = [chats EXCEPT ![c].out = Append(@, Content)]
    /\ UNCHANGED <<agent, rag_chain, history_chain, agent_executor, nChats>>
    /\ UNCHANGED OutsideAgent

\* the chain's stream is exhausted: the generator ends
ChatDrained(c) ==
    /\ chats[c].pc = "running" /\ chats[c].method \in Streaming
    /\ chats' = [chats EXCEPT ![c].pc = "done", ![c].result = "ended"]
    /\ UNCHANGED <<agent, rag_chain, history_chain, agent_executor, nChats>>
    /\ UNCHANGED OutsideAgent

\* the model, a tool or the chain raises while the chain runs
ChatRaise(c) ==
    /\ chats[c].pc = "running"
    /\ Except(c)
    /\ UNCHANGED <<agent, rag_chain, history_chain, agent_executor, nChats>>
    /\ UNCHANGED OutsideAgent

AgentNext ==
    \/ \E c \in ChatCallers, method \in Methods,
          provider_name \in OverrideProviders, model_name \in OverrideModels :
          /\ nChats < MaxChats
          /\ ChatBegin(c, method, provider_name, model_name)
    \/ \E c \in ChatCallers, raised \in BOOLEAN : WritingResolve(c, raised)
    \/ \E c \in ChatCallers, raised \in BOOLEAN : WritingInitRag(c, raised)
    \/ \E c \in ChatCallers : WritingInitExecutor(c)
    \/ \E c \in ChatCallers : WritingInvoke(c)
    \/ \E c \in ChatCallers, raised \in BOOLEAN : DBInvoke(c, raised)
    \/ \E c \in ChatCallers : ChatReturn(c)
    \/ \E c \in ChatCallers : ChatChunk(c)
    \/ \E c \in ChatCallers : ChatDrained(c)
    \/ \E c \in ChatCallers : ChatRaise(c)

\* ------------------------------------------------ session registries and failing backends
\* BaseAgent._get_session_history, app.py's get_session_history,
\* MongoStore.get_session_history and the constructor and the failing calls of
\* EnhancedMongoDBChatMessageHistory (chat_memory/mongo_store.py).  The history
\* objects live in a heap, so that "the same store" is the same heap index.
\* The collection is the variable mongo of the store section.

MaxAccesses == 3
MaxWrites == 2
MaxHistories == 2

HistoryUsers == {"default_user", "u1"}
Registries == {"BaseAgent", "app", "MongoStore"}
ConnectionStrings == {None, "", "mongodb://host"}
Clients == {None, "client"}
HistoryMessages == {HumanMessage(<<"a">>), AIMessage(<<"b">>)}

\* pymongo.errors: WriteError is an OperationFailure, ConnectionFailure is not
PyMongoErrors == {"WriteError", "OperationFailure", "ConnectionFailure"}
IsInstance(error, class) ==
    \/ error = class
    \/ error = "WriteError" /\ class = "OperationFailure"

\* EnhancedMongoDBChatMessageHistory.__init__ with both arguments given and the
\* client preferred
NewHistoryOutcomeClientWins(connection_string, client, failure) ==
    IF ~Falsy(client) THEN
        IF failure = "create_index" THEN "create_index raised" ELSE "constructed"
    ELSE IF ~Falsy(connection_string) THEN
        IF failure = "MongoClient" THEN "AttributeError"
        ELSE IF failure = "create_index" THEN "create_index raised" ELSE "constructed"
    ELSE "ValueError"

\* EnhancedMongoDBChatMessageHistory.__init__: how the construction ends.
\* failure names the call the backend fails: MongoClient(..) raising
\* ConnectionFailure is logged and leaves self.client unset, so the next line
\* raises AttributeError.
NewHistoryOutcome(connection_string, client, failure) ==
    IF ~Falsy(client) THEN
        IF ~Falsy(connection_string) THEN "ValueError"
        ELSE IF failure = "create_index" THEN "create_index raised" ELSE "constructed"
    ELSE IF ~Falsy(connection_string) THEN
        IF failure = "MongoClient" THEN "AttributeError"
        ELSE IF failure = "create_index" THEN "create_index raised" ELSE "constructed"
    ELSE "ValueError"

ConstructorFailures == {"none", "MongoClient", "create_index"}

HistoryObject(class, session_id, user_id, history_size) ==
    [class |-> class, session_id |-> session_id, user_id |-> user_id,
     history_size |-> history_size, messages |-> <<>>]

\* what the object lists now
ObjectMessages(objects, i) ==
    IF objects[i].class = "EnhancedMongoDBChatMessageHistory"
    THEN MongoMessages(objects[i].user_id, objects[i].session_id, objects[i].history_size)
    ELSE objects[i].messages

NoAccess == [op |-> "none"]

HistoryInit ==
    /\ mongo = <<>>
    /\ clock = 1
    /\ history_objects = <<>>
    /\ agent_histories = <<>>
    /\ app_histories = <<>>
    /\ appended = [r \in Registries |-> [s \in Sessions |-> <<>>]]
    /\ granted = [r \in Registries |-> [s \in Sessions |-> {}]]
    /\ lastAccess = NoAccess
    /\ nAccesses = 0
    /\ lastNew = NoAccess
    /\ lastFault = NoAccess
    /\ nWrites = 0

\* the variables of the store section the history actions leave alone
StoreRest == <<backend, mem, redis, docs, lastOp, nOps>>

\* an access returned the object: the store the caller now holds, what it lists,
\* and what has been appended for the session id so far
Access(registry, session_id, user_id, object, objects) ==
    /\ granted' = [granted EXCEPT ![registry][session_id] = @ \cup {object}]
    /\ nAccesses' = nAccesses + 1
    /\ lastAccess' = [op |-> "get_session_history", registry |-> registry,
                      session_id |-> session_id, user_id |-> user_id, object |-> object,
                      listed |-> ObjectMessages(objects, object),
                      appended |-> appended[registry][session_id]]

\* BaseAgent._get_session_history(session_id)
BaseAgentGetSessionHistory(session_id) ==
    LET fresh == session_id \notin DOMAIN agent_histories
        objects == IF fresh
                   THEN Append(history_objects,
                               HistoryObject("list", session_id, None, NoSize))
                   ELSE history_objects
        h == IF fresh
             THEN [s \in DOMAIN agent_histories \cup {session_id} |->
                      IF s = session_id THEN Len(objects) ELSE agent_histories[s]]
             ELSE agent_histories
    IN  /\ history_objects' = objects
        /\ agent_histories' = h
        /\ Access("BaseAgent", session_id, None, h[session_id], objects)
        /\ UNCHANGED <<mongo, clock, app_histories, appended, lastNew, lastFault, nWrites>>
        /\ UNCHANGED <<StoreRest, OutsideHistory>>

\* app.py: get_session_history(session_id) over the module's store dict
AppGetSessionHistory(session_id) ==
    LET fresh == session_id \notin DOMAIN app_histories
        objects == IF fresh
                   THEN Append(history_objects,
                               HistoryObject("ChatMessageHistory", session_id, None, NoSize))
                   ELSE history_objects
        h == IF fresh
             THEN [s \in DOMAIN app_histories \cup {session_id} |->
                      IF s = session_id THEN Len(objects) ELSE app_histories[s]]
             ELSE app_histories
    IN  /\ history_objects' = objects
        /\ app_histories' = h
        /\ Access("app", session_id, None, h[session_id], objects)
        /\ UNCHANGED <<mongo, clock, agent_histories, appended, lastNew, lastFault, nWrites>>
        /\ UNCHANGED <<StoreRest, OutsideHistory>>

\* EnhancedMongoDBChatMessageHistory(connection_string, session_id, user_id,
\* history_size=.., client=..)
NewHistory(connection_string, client, session_id, user_id, history_size, failure) ==
    LET outcome == NewHistoryOutcome(connection_string, client, failure)
    IN  /\ history_objects' =
              IF outcome = "constructed"
              THEN Append(history_objects,
                          HistoryObject("EnhancedMongoDBChatMessageHistory",
                                        session_id, user_id, history_size))
              ELSE history_objects
        /\ lastNew' = [op |-> "new", connection_string |-> connection_string,
                       client |-> client, outcome |-> outcome,
                       stored |-> Len(history_objects') > Len(history_objects)]

\* the constructor called by a client of the class
NewHistoryCall(connection_string, client, session_id, user_id, history_size, failure) ==
    /\ NewHistory(connection_string, client, session_id, user_id, history_size, failure)
    /\ UNCHANGED <<mongo, clock, agent_histories, app_histories, appended, granted,
                   lastAccess, nAccesses, lastFault, nWrites>>
    /\ UNCHANGED <<StoreRest, OutsideHistory>>

\* MongoStore.get_session_history(session_id, user_id): a new history object
\* over self.connection_string at every call
MongoStoreGetSessionHistory(session_id, user_id, failure) ==
    /\ NewHistory("mongodb://host", None, session_id, user_id, NoSize, failure)
    /\ IF lastNew'.outcome = "constructed"
       THEN Access("MongoStore", session_id, user_id,
                   Len(history_objects'), history_objects')
       ELSE UNCHANGED <<granted, lastAccess, nAccesses>>
    /\ UNCHANGED <<mongo, clock, agent_histories, app_histories, appended, lastFault, nWrites>>
    /\ UNCHANGED <<StoreRest, OutsideHistory>>

RegistryOf(class) ==
    CASE class = "list" -> "BaseAgent"
      [] class = "ChatMessageHistory" -> "app"
      [] OTHER -> "MongoStore"

\* a message appended through a store held in memory
MemoryHistoryAppend(i, m) ==
    /\ history_objects[i].class # "EnhancedMongoDBChatMessageHistory"
    /\ history_objects' = [history_objects EXCEPT ![i].messages = Append(@, m)]
    /\ appended' = [appended EXCEPT
                      ![RegistryOf(history_objects[i].class)][history_objects[i].session_id] =
                          Append(@, m)]
    /\ nWrites' = nWrites + 1
    /\ UNCHANGED <<mongo, clock, agent_histories, app_histories, granted, lastAccess, nAccesses, lastNew, lastFault>>
    /\ UNCHANGED <<StoreRest, OutsideHistory>>

\* EnhancedMongoDBChatMessageHistory.add_message(message); error is the
\* exception insert_one raises, None when the backend works:
\* `except errors.WriteError` logs and returns
AddMessage(i, m, error) ==
    LET o == history_objects[i]
        caught == error # None /\ IsInstance(error, "WriteError")
        raised == error # None /\ ~caught
    IN  /\ o.class = "EnhancedMongoDBChatMessageHistory"
        /\ mongo' = IF error = None THEN MongoInserted(o.user_id, o.session_id, m) ELSE mongo
        /\ clock' = IF error = None THEN clock + 1 ELSE clock
        /\ appended' = IF error = None
                       THEN [appended EXCEPT !["MongoStore"][o.session_id] = Append(@, m)]
                       ELSE appended
        /\ lastFault' = IF error = None THEN NoAccess
                        ELSE [op |-> "add_message", error |-> error,
                              outcome |-> IF raised THEN "raised" ELSE "returned",
                              result |-> <<>>, reply |-> <<>>,
                              unchanged |-> mongo' = mongo]
        /\ nWrites' = nWrites + 1
        /\ UNCHANGED <<history_objects, agent_histories, app_histories, granted, lastAccess, nAccesses, lastNew>>
        /\ UNCHANGED <<StoreRest, OutsideHistory>>

\* The calls of the messages property that reach the backend: count_documents
\* inside the try block when history_size is set; find() only builds the cursor,
\* which is read by the list comprehension after the try block.
ReadSteps(history_size) ==
    IF history_size = NoSize THEN {"cursor"} ELSE {"count_documents", "cursor"}

\* EnhancedMongoDBChatMessageHistory.messages with the backend failing at step
\* `at`: `except errors.OperationFailure` logs and returns []
Messages(i, error, at) ==
    LET o == history_objects[i]
        caught == at = "count_documents" /\ IsInstance(error, "OperationFailure")
    IN  /\ o.class = "EnhancedMongoDBChatMessageHistory"
        /\ at \in ReadSteps(o.history_size)
        /\ lastFault' = [op |-> "messages", error |-> error,
                         outcome |-> IF caught THEN "returned" ELSE "raised",
                         result |-> <<>>, reply |-> <<>>,
                         unchanged |-> TRUE]
        /\ UNCHANGED <<mongo, clock, history_objects, agent_histories, app_histories,
                       appended, granted, lastAccess, nAccesses, lastNew, nWrites>>
        /\ UNCHANGED <<StoreRest, OutsideHistory>>

\* ChatHistoryManager.invoke over a document-backed session history: the
\* runnable answers, the input message is saved, and saving the answer fails
\* with error; nothing in invoke catches what add_message lets through
InvokeFailingWrite(i, query, reply, error) ==
    LET o == history_objects[i]
        caught == IsInstance(error, "WriteError")
    IN  /\ o.class = "EnhancedMongoDBChatMessageHistory"
        /\ mongo' = MongoInserted(o.user_id, o.session_id, HumanMessage(query))
        /\ clock' = clock + 1
        /\ appended' = [appended EXCEPT
                          !["MongoStore"][o.session_id] = Append(@, HumanMessage(query))]
        /\ lastFault' = [op |-> "invoke", error |-> error,
                         outcome |-> IF caught THEN "returned" ELSE "raised",
                         result |-> IF caught THEN reply ELSE <<>>, reply |-> reply,
                         unchanged |-> mongo' = mongo]
        /\ nWrites' = nWrites + 1
        /\ UNCHANGED <<history_objects, agent_histories, app_histories, granted, lastAccess, nAccesses, lastNew>>
        /\ UNCHANGED <<StoreRest, OutsideHistory>>

Objects == 1..Len(history_objects)

\* the registries in use: accesses to any session id, appends through the stores
SessionsNext ==
    \/ \E session_id \in Sessions :
          nAccesses < MaxAccesses /\ BaseAgentGetSessionHistory(session_id)
    \/ \E session_id \in Sessions :
          nAccesses < MaxAccesses /\ AppGetSessionHistory(session_id)
    \/ \E session_id \in Sessions, user_id \in HistoryUsers, failure \in ConstructorFailures :
          /\ nAccesses < MaxAccesses
          /\ MongoStoreGetSessionHistory(session_id, user_id, failure)
    \/ \E i \in Objects, m \in HistoryMessages :
          nWrites < MaxWrites /\ MemoryHistoryAppend(i, m)
    \/ \E i \in Objects, m \in HistoryMessages :
          nWrites < MaxWrites /\ AddMessage(i, m, None)

\* the constructor called with every combination of its arguments
ConstructNext ==
    \E connection_string \in ConnectionStrings, client \in Clients,
       session_id \in Sessions, user_id \in HistoryUsers,
       history_size \in {NoSize, 1}, failure \in ConstructorFailures :
          /\ Len(history_objects) < MaxHistories
          /\ NewHistoryCall(connection_string, client, session_id, user_id,
                            history_size, failure)

\* document-backed histories whose backend fails during a call
FaultsNext ==
    \/ \E history_size \in {NoSize, 1} :
          /\ Len(history_objects) < MaxHistories
          /\ NewHistoryCall("mongodb://host", None, "s1", "u1", history_size, "none")
    \/ \E i \in Objects, m \in HistoryMessages, error \in PyMongoErrors \cup {None} :
          nWrites < MaxWrites /\ AddMessage(i, m, error)
    \/ \E i \in Objects, error \in PyMongoErrors, at \in {"count_documents", "cursor"} :
          Messages(i, error, at)
    \/ \E i \in Objects, error \in PyMongoErrors :
          nWrites < MaxWrites /\ InvokeFailingWrite(i, <<"a">>, <<"b">>, error)

\* ------------------------------------------------ the web service
\* web/controller.py: the two managers built when the module is imported, and
\* the /stream_chat and /health handlers.  start_server.py imports the module
\* and runs the server.

MaxRequests == 2
MaxStreamChunks == 2

RequestAgentTypes == {"writing", "db", "foo"}

DataEvent(chunk) == [event |-> None, data |-> chunk]
ErrorEvent(message) == [event |-> "error", data |-> message]
EndEvent == [event |-> "end", data |-> "[DONE]"]

\* a refusal that closes the response the way the streaming path does
RefusalEventsWithEnd(message) == <<ErrorEvent(message), EndEvent>>

\* error_gen(): the events of a request the handler refuses
RefusalEvents(message) == <<ErrorEvent(message)>>

NoStream == [pc |-> "none", path |-> "none", agent_type |-> None,
             provider_name |-> None, events |-> <<>>]

ServiceInit ==
    /\ service = [state |-> "importing", model_provider_manager |-> FALSE,
                  multi_agent_manager |-> FALSE]
    /\ stream = NoStream
    /\ health = [status |-> "none", message |-> "none"]
    /\ nRequests = 0

\* multi_agent_manager.get_agent(agent_type): self.agents.get(agent_name)
GetAgent(agent_type) ==
    IF agent_type \in GetAvailableAgents THEN agent_type ELSE None

\* The import of web/controller.py (72-87) and the start of the server:
\* provider_raises and agents_raise select the two constructors raising, which
\* the module catches, leaving the manager None; failing is the set of agents
\* whose constructor raises.  Nothing on this path ends the process.
Startup(provider_raises, agents_raise, failing) ==
    /\ service.state = "importing"
    /\ LET empty == [providers |-> <<>>, default_provider |-> None]
           reg == IF provider_raises THEN empty ELSE AutoRegistered(empty, GetAllAIConfigs)
           agent_configs == <<"writing", "db">>
           after == MultiAgentLoop(Factory,
                                   [constructed |-> TRUE, agents |-> <<>>,
                                    default_agent |-> None, agent_configs |-> agent_configs,
                                    failing |-> failing],
                                   agent_configs, ~provider_raises, failing)
       IN  /\ providers' = reg.providers
           /\ default_provider' = reg.default_provider
           /\ phase' = IF provider_raises THEN "failed" ELSE "auto"
           /\ IF agents_raise
              THEN UNCHANGED <<multi, config_objects, instances, made>>
              ELSE /\ multi' = after.multi
                   /\ config_objects' = after.fac.config_objects
                   /\ instances' = after.fac.instances
                   /\ made' = after.fac.made
           /\ service' = [state |-> "serving",
                          model_provider_manager |-> ~provider_raises,
                          multi_agent_manager |-> ~agents_raise]
    /\ UNCHANGED <<stream, health, nRequests>>
    /\ UNCHANGED <<api_keys, DEFAULT_AI_PROVIDER, discovered, registrations, lastGet>>
    /\ UNCHANGED <<discovered_agents, lastCreate>>
    /\ UNCHANGED OutsideService

\* what neither /stream_chat nor /health touches
ServiceRest == <<providerVars, factoryVars, OutsideService>>

\* the handler of POST /stream_chat up to the response it returns
StreamChat(agent_type, provider_name) ==
    /\ service.state = "serving"
    /\ stream.pc \in {"none", "done"}
    /\ LET refused(path, message) ==
               [NoStream EXCEPT !.pc = "done", !.path = path, !.agent_type = agent_type,
                                !.events = RefusalEvents(message)]
       IN  stream' =
             IF ~service.multi_agent_manager
             THEN refused("no_agent_manager", "agent manager not initialised")
             ELSE IF GetAgent(agent_type) = None
             THEN refused("no_agent", "agent unavailable")
             ELSE IF ~service.model_provider_manager
             THEN refused("no_provider_manager", "provider manager not initialised")
             ELSE [NoStream EXCEPT
                     !.pc = "streaming", !.path = "streaming", !.agent_type = agent_type,
                     !.provider_name =
                         IF provider_name \in ListConfiguredProviders(providers)
                         THEN provider_name ELSE default_provider]
    /\ nRequests' = nRequests + 1
    /\ UNCHANGED <<service, health>>
    /\ UNCHANGED ServiceRest

\* response_stream: `yield {"data": chunk}` for a chunk of agent.stream_chat
StreamData ==
    /\ stream.pc = "streaming"
    /\ Len(stream.events) < MaxStreamChunks
    /\ stream' = [stream EXCEPT !.events = Append(@, DataEvent(Content))]
    /\ UNCHANGED <<service, health, nRequests>>
    /\ UNCHANGED ServiceRest

\* the agent fails in the middle of the turn: its stream_chat yields the text
\* of its except branch as a last chunk and ends
StreamAgentFails ==
    /\ stream.pc = "streaming"
    /\ stream' = [stream EXCEPT !.pc = "drained", !.path = "agent_failed",
                     !.events = Append(@, DataEvent(ExceptText(stream.agent_type,
                                                              "stream_chat")))]
    /\ UNCHANGED <<service, health, nRequests>>
    /\ UNCHANGED ServiceRest

\* response_stream: the agent's generator is exhausted and
\* `yield {"event": "end", "data": "[DONE]"}` closes the response
StreamEnd ==
    /\ stream.pc \in {"streaming", "drained"}
    /\ stream' = [stream EXCEPT !.pc = "done", !.events = Append(@, EndEvent)]
    /\ UNCHANGED <<service, health, nRequests>>
    /\ UNCHANGED ServiceRest

\* GET /health
HealthCheck ==
    /\ service.state = "serving"
    /\ health' = IF ~service.multi_agent_manager
                 THEN [status |-> "degraded", message |-> "agent manager not initialised"]
                 ELSE IF ~service.model_provider_manager
                 THEN [status |-> "degraded", message |-> "provider manager not initialised"]
                 ELSE [status |-> "healthy", message |-> "service running"]
    /\ nRequests' = nRequests + 1
    /\ UNCHANGED <<service, stream>>
    /\ UNCHANGED ServiceRest

ServiceNext ==
    \/ \E provider_raises \in BOOLEAN, agents_raise \in BOOLEAN,
          failing \in SUBSET {"writing", "db"} :
          Startup(provider_raises, agents_raise, failing)
    \/ \E agent_type \in RequestAgentTypes, provider_name \in RequestNames :
          nRequests < MaxRequests /\ StreamChat(agent_type, provider_name)
    \/ StreamData
    \/ StreamAgentFails
    \/ StreamEnd
    \/ nRequests < MaxRequests /\ HealthCheck

\* ------------------------------------------------ tools/db_tool.py: DBAgent
\* One DBAgent holds one MongoChatMemory; chat and achat set its session context,
\* run the executor and then save the turn through it.
MaxToolChats == 2

ToolCallers == {1, 2}
ToolMethods == {"chat", "achat"}
ToolChatIds == {"s1", "s2"}
ToolUserIds == {None, "u1"}
IdleToolChat == [pc |-> "idle", method |-> "none", chat_id |-> None, user_id |-> None,
                 turn |-> 0, message |-> <<>>, reply |-> <<>>]

\* MongoChatMemory(): session_id "default_session", user_id "default_user"
ToolInit ==
    /\ memory = [session_id |-> "default_session", user_id |-> "default_user"]
    /\ toolChats = [c \in ToolCallers |-> IdleToolChat]
    /\ nToolChats = 0

ToolRest ==
    <<StoreRest, invokerVars, providerVars, factoryVars, agentVars, historyVars, serviceVars,
      raceVars, dbVars>>

\* user_id or "default_user"
UserIdOrDefault(user_id) == IF Falsy(user_id) THEN "default_user" ELSE user_id

\* self.memory.add_message(m): EnhancedMongoDBChatMessageHistory.add_message with
\* the session_id and user_id the memory holds now
ToolSaved(collection, m, now) ==
    Append(collection, [SessionId |-> memory.session_id, UserId |-> memory.user_id,
                        History |-> MessageToDict(m), message_type |-> m.type,
                        timestamp |-> now])

\* a chat (sync) runs to its end before anything else on the event loop does
NoSyncChat == \A c \in ToolCallers : ~(toolChats[c].pc = "awaiting" /\ toolChats[c].method = "chat")

\* chat / achat up to the call of the executor: the session context is set
ToolChatBegin(c, method, chat_id, user_id) ==
    /\ toolChats[c].pc \in {"idle", "done", "failed"}
    /\ nToolChats < MaxToolChats
    /\ NoSyncChat
    /\ method = "chat" => \A d \in ToolCallers : toolChats[d].pc # "awaiting"
    /\ nToolChats' = nToolChats + 1
    /\ memory' = [session_id |-> chat_id, user_id |-> UserIdOrDefault(user_id)]
    /\ toolChats' = [toolChats EXCEPT ![c] =
                        [pc |-> "awaiting", method |-> method, chat_id |-> chat_id,
                         user_id |-> user_id, turn |-> nToolChats + 1,
                         message |-> QueryOf(nToolChats + 1), reply |-> <<>>]]
    /\ UNCHANGED <<mongo, clock, ToolRest>>

\* the executor answers: the user message and the reply are saved
ToolChatReturn(c) ==
    /\ toolChats[c].pc = "awaiting"
    /\ LET call == toolChats[c]
           reply == ReplyOf(call.turn)
       IN  /\ mongo' = ToolSaved(ToolSaved(mongo, HumanMessage(call.message), clock),
                                 AIMessage(reply), clock + 1)
           /\ toolChats' = [toolChats EXCEPT ![c] = [call EXCEPT !.pc = "done", !.reply = reply]]
    /\ clock' = clock + 2
    /\ UNCHANGED <<memory, nToolChats, ToolRest>>

\* the executor raises: the apology is returned, nothing is saved
ToolChatRaise(c) ==
    /\ toolChats[c].pc = "awaiting"
    /\ toolChats' = [toolChats EXCEPT ![c] = [@ EXCEPT !.pc = "failed", !.reply = Apology]]
    /\ UNCHANGED <<memory, nToolChats, mongo, clock, ToolRest>>

ToolNext ==
    \/ \E c \in ToolCallers, method \in ToolMethods, chat_id \in ToolChatIds,
          user_id \in ToolUserIds : ToolChatBegin(c, method, chat_id, user_id)
    \/ \E c \in ToolCallers : ToolChatReturn(c)
    \/ \E c \in ToolCallers : ToolChatRaise(c)

\* ------------------------------------------------ DBAgent: the history of a chat
\* web/agent/db_agent.py: a turn saves through the history of (chat_id, user_id);
\* get_history and clear_history take the chat_id alone.
MaxDBOps == 3

DBChatIds == {"s1", "s2"}
DBUserIds == {None, "u1"}
NoDBOp == [op |-> "none"]

DBInit ==
    /\ lastDB = NoDBOp
    /\ nDBOps = 0

DBRest ==
    <<StoreRest, invokerVars, providerVars, factoryVars, agentVars, historyVars, serviceVars,
      raceVars, toolVars>>

\* MongoChatMemory.get_session_history(session_id, user_id="default_user"): the
\* history of that session and user
MongoChatMemoryGetSessionHistory(session_id, user_id) ==
    [session_id |-> session_id, user_id |-> user_id]

\* the user of a history asked for by its session id alone
DefaultUser == "default_user"

\* MongoDBChatMessageHistory.messages, which mongo_chat_memory.py does not
\* override: find({SessionId: session_id}), whatever the UserId
MessagesOf(collection, history) ==
    LET found == SelectSeq(collection, LAMBDA d : d.SessionId = history.session_id)
    IN  [i \in 1..Len(found) |-> MessageFromDict(found[i].History)]

\* EnhancedMongoDBChatMessageHistory.add_message (mongo_chat_memory.py)
HistorySaved(collection, history, m, now) ==
    Append(collection, [SessionId |-> history.session_id, UserId |-> history.user_id,
                        History |-> MessageToDict(m), message_type |-> m.type,
                        timestamp |-> now])

\* EnhancedMongoDBChatMessageHistory.clear (mongo_chat_memory.py):
\* delete_many({SessionId: session_id, UserId: user_id})
HistoryCleared(collection, history) ==
    SelectSeq(collection, LAMBDA d : ~(d.SessionId = history.session_id
                                        /\ d.UserId = history.user_id))

\* DBAgent.get_history(chat_id)
GetHistory(collection, chat_id) ==
    MessagesOf(collection, MongoChatMemoryGetSessionHistory(chat_id, DefaultUser))

\* chat / achat / stream_chat / astream_chat: the executor runs with the config
\* {"session_id": chat_id, "user_id": user_id or "default_user"}; when it answers,
\* the question and the answer are saved; when it raises, the apology goes out
DBChat(method, chat_id, user_id, raised) ==
    /\ nDBOps < MaxDBOps
    /\ nDBOps' = nDBOps + 1
    /\ LET history == MongoChatMemoryGetSessionHistory(chat_id, UserIdOrDefault(user_id))
           question == HumanMessage(QueryOf(nDBOps + 1))
           answer == AIMessage(ReplyOf(nDBOps + 1))
       IN  IF raised
           THEN /\ lastDB' = [op |-> "failed_turn", method |-> method, chat_id |-> chat_id,
                              user_id |-> user_id, messages |-> <<>>, result |-> <<>>]
                /\ UNCHANGED <<mongo, clock>>
           ELSE /\ mongo' = HistorySaved(HistorySaved(mongo, history, question, clock),
                                         history, answer, clock + 1)
                /\ clock' = clock + 2
                /\ lastDB' = [op |-> "turn", method |-> method, chat_id |-> chat_id,
                              user_id |-> user_id, messages |-> <<question, answer>>,
                              result |-> <<>>]
    /\ UNCHANGED DBRest

\* DBAgent.get_history(chat_id)
DBGetHistory(chat_id) ==
    /\ nDBOps < MaxDBOps
    /\ nDBOps' = nDBOps + 1
    /\ lastDB' = [op |-> "get_history", method |-> "none", chat_id |-> chat_id,
                  user_id |-> None, messages |-> <<>>, result |-> GetHistory(mongo, chat_id)]
    /\ UNCHANGED <<mongo, clock, DBRest>>

\* DBAgent.clear_history(chat_id)
DBClearHistory(chat_id) ==
    /\ nDBOps < MaxDBOps
    /\ nDBOps' = nDBOps + 1
    /\ mongo' = HistoryCleared(mongo, MongoChatMemoryGetSessionHistory(chat_id, DefaultUser))
    /\ lastDB' = [op |-> "clear_history", method |-> "none", chat_id |-> chat_id,
                  user_id |-> None, messages |-> <<>>, result |-> <<>>]
    /\ UNCHANGED <<clock, DBRest>>

DBNext ==
    \/ \E method \in Methods, chat_id \in DBChatIds, user_id \in DBUserIds, raised \in BOOLEAN :
          DBChat(method, chat_id, user_id, raised)
    \/ \E chat_id \in DBChatIds : DBGetHistory(chat_id)
    \/ \E chat_id \in DBChatIds : DBClearHistory(chat_id)

\* ------------------------------------------------ races on the registries
\* Two threads call BaseAgent._get_session_history or AgentFactory.create_agent
\* for one key. Neither method takes a lock, so a thread may be preempted
\* between the membership test, the store into the dict and the lookup.
MaxRaceCalls == 2

ThreadIds == {1, 2}
RaceRegistries == {"BaseAgent", "AgentFactory"}
RaceSession == "s1"
RaceAgentType == "writing"
RaceMessages == {HumanMessage(<<"a">>)}
IdleThread == [pc |-> "idle", registry |-> None, instance |-> 0, held |-> 0, calls |-> 0]

RaceInit == threads = [t \in ThreadIds |-> IdleThread]

\* what a step on the session registry leaves alone, and a step on the factory
HistoryRaceRest ==
    <<mongo, clock, StoreRest, invokerVars, providerVars, factoryVars, agentVars, serviceVars,
      toolVars, dbVars>>
FactoryRaceRest ==
    <<storeVars, invokerVars, providerVars, agentVars, historyVars, serviceVars, toolVars,
      dbVars, discovered_agents, config_objects, lastCreate, multi>>

\* a thread enters the method
RaceCall(t, registry) ==
    /\ threads[t].pc \in {"idle", "holding"}
    /\ threads[t].calls < MaxRaceCalls
    /\ threads' = [threads EXCEPT ![t] = [pc |-> "check", registry |-> registry,
                                          instance |-> 0, held |-> 0, calls |-> @.calls + 1]]
    /\ UNCHANGED <<storeVars, invokerVars, providerVars, factoryVars, agentVars,
                   historyVars, serviceVars, toolVars, dbVars>>

\* if session_id not in self.chat_history
HistoryCheck(t) ==
    /\ threads[t].pc = "check" /\ threads[t].registry = "BaseAgent"
    /\ threads' = [threads EXCEPT ![t].pc =
                      IF RaceSession \in DOMAIN agent_histories THEN "return" ELSE "store"]
    /\ UNCHANGED <<historyVars, HistoryRaceRest>>

\* self.chat_history[session_id] = []
HistoryStore(t) ==
    /\ threads[t].pc = "store" /\ threads[t].registry = "BaseAgent"
    /\ history_objects' = Append(history_objects,
                                 HistoryObject("list", RaceSession, None, NoSize))
    /\ agent_histories' = [s \in DOMAIN agent_histories \cup {RaceSession} |->
                              IF s = RaceSession THEN Len(history_objects')
                              ELSE agent_histories[s]]
    /\ threads' = [threads EXCEPT ![t].pc = "return"]
    /\ UNCHANGED <<app_histories, appended, granted, lastAccess, nAccesses, lastNew,
                   lastFault, nWrites>>
    /\ UNCHANGED HistoryRaceRest

\* return self.chat_history[session_id]
HistoryReturn(t) ==
    /\ threads[t].pc = "return" /\ threads[t].registry = "BaseAgent"
    /\ threads' = [threads EXCEPT ![t].pc = "holding",
                                  ![t].held = agent_histories[RaceSession]]
    /\ Access("BaseAgent", RaceSession, None, agent_histories[RaceSession], history_objects)
    /\ UNCHANGED <<history_objects, agent_histories, app_histories, appended, lastNew,
                   lastFault, nWrites>>
    /\ UNCHANGED HistoryRaceRest

\* history.append(..) through the list the thread was handed
HistoryAppend(t, m) ==
    /\ threads[t].pc = "holding" /\ threads[t].registry = "BaseAgent"
    /\ nWrites < MaxWrites
    /\ MemoryHistoryAppend(threads[t].held, m)

RaceKey == ConfigKey(config_objects, RaceAgentType, NoConfig)

\* if config_key in cls._instances: return cls._instances[config_key]
FactoryCheck(t) ==
    /\ threads[t].pc = "check" /\ threads[t].registry = "AgentFactory"
    /\ threads' = [threads EXCEPT ![t] =
                      IF \E e \in instances : e.key = RaceKey
                      THEN [@ EXCEPT !.pc = "holding",
                                     !.held = (CHOOSE e \in instances : e.key = RaceKey).instance]
                      ELSE [@ EXCEPT !.pc = "construct"]]
    /\ UNCHANGED <<instances, made, FactoryRaceRest>>

\* instance = agent_class(config)
FactoryConstruct(t) ==
    /\ threads[t].pc = "construct" /\ threads[t].registry = "AgentFactory"
    /\ AgentClass(RaceAgentType) # None
    /\ made' = Append(made, [class |-> AgentClass(RaceAgentType), config |-> NoConfig,
                             keys |-> <<>>])
    /\ threads' = [threads EXCEPT ![t].pc = "store", ![t].instance = Len(made')]
    /\ UNCHANGED <<instances, FactoryRaceRest>>

\* cls._instances[config_key] = instance; return instance
FactoryStore(t) ==
    /\ threads[t].pc = "store" /\ threads[t].registry = "AgentFactory"
    /\ instances' = {e \in instances : e.key # RaceKey}
                        \cup {[key |-> RaceKey, instance |-> threads[t].instance]}
    /\ threads' = [threads EXCEPT ![t].pc = "holding", ![t].held = threads[t].instance]
    /\ UNCHANGED <<made, FactoryRaceRest>>

RaceNext ==
    \/ \E t \in ThreadIds, registry \in RaceRegistries : RaceCall(t, registry)
    \/ \E t \in ThreadIds : HistoryCheck(t)
    \/ \E t \in ThreadIds : HistoryStore(t)
    \/ \E t \in ThreadIds : HistoryReturn(t)
    \/ \E t \in ThreadIds, m \in RaceMessages : HistoryAppend(t, m)
    \/ \E t \in ThreadIds : FactoryCheck(t)
    \/ \E t \in ThreadIds : FactoryConstruct(t)
    \/ \E t \in ThreadIds : FactoryStore(t)

\* ---------------------------------------------------- specifications
StoreIdle ==
    /\ backend = "memory"
    /\ mem = [k \in Keys |-> <<>>]
    /\ redis = [u \in Users |-> {}]
    /\ mongo = <<>>
    /\ docs = <<>>
    /\ clock = 1
    /\ lastOp = NoOp
    /\ nOps = 0

InvokerIdle ==
    /\ manager = [input_messages_key |-> "input", output_messages_key |-> None,
                  history_messages_key |-> "chat_history"]
    /\ store = <<>>
    /\ chat_history = <<>>
    /\ calls = [c \in CallIds |-> IdleCall]
    /\ expected = [s \in Sessions |-> [ok |-> TRUE, log |-> <<>>]]
    /\ agentExpected = [s \in Sessions |-> [ok |-> TRUE, log |-> <<>>]]
    /\ nTurns = 0

ProviderIdle ==
    /\ api_keys = {}
    /\ DEFAULT_AI_PROVIDER = "qwen"
    /\ discovered = {}
    /\ providers = <<>>
    /\ default_provider = None
    /\ registrations = <<>>
    /\ lastGet = [op |-> "none"]
    /\ phase = "config"

FactoryIdle ==
    /\ discovered_agents = DiscoverableAgents
    /\ config_objects = [c \in ConfigIds |-> <<>>]
    /\ instances = {}
    /\ made = <<>>
    /\ lastCreate = [op |-> "none", calls |-> 0]
    /\ multi = [constructed |-> FALSE, agents |-> <<>>, default_agent |-> None,
                agent_configs |-> <<>>, failing |-> {}]

AgentIdle ==
    /\ agent = "writing"
    /\ rag_chain = DefaultModel
    /\ history_chain = DefaultModel
    /\ agent_executor = DefaultModel
    /\ chats = [c \in ChatCallers |-> IdleChat]
    /\ nChats = 0

HistoryIdle ==
    /\ history_objects = <<>>
    /\ agent_histories = <<>>
    /\ app_histories = <<>>
    /\ appended = [r \in Registries |-> [s \in Sessions |-> <<>>]]
    /\ granted = [r \in Registries |-> [s \in Sessions |-> {}]]
    /\ lastAccess = NoAccess
    /\ nAccesses = 0
    /\ lastNew = NoAccess
    /\ lastFault = NoAccess
    /\ nWrites = 0

RaceIdle == threads = [t \in ThreadIds |-> IdleThread]

ToolIdle ==
    /\ memory = [session_id |-> "default_session", user_id |-> "default_user"]
    /\ toolChats = [c \in ToolCallers |-> IdleToolChat]
    /\ nToolChats = 0

DBIdle ==
    /\ lastDB = NoDBOp
    /\ nDBOps = 0

ServiceIdle ==
    /\ service = [state |-> "importing", model_provider_manager |-> FALSE,
                  multi_agent_manager |-> FALSE]
    /\ stream = NoStream
    /\ health = [status |-> "none", message |-> "none"]
    /\ nRequests = 0

SpecStoreInit ==
    /\ StoreInit /\ InvokerIdle /\ ProviderIdle /\ FactoryIdle /\ AgentIdle
    /\ HistoryIdle /\ ServiceIdle
    /\ RaceIdle
    /\ ToolIdle
    /\ DBIdle
SpecStore == SpecStoreInit /\ [][StoreNext]_vars

SpecInvokerInit ==
    /\ InvokerInit /\ StoreIdle /\ ProviderIdle /\ FactoryIdle /\ AgentIdle
    /\ HistoryIdle /\ ServiceIdle
    /\ RaceIdle
    /\ ToolIdle
    /\ DBIdle
SpecInvoker == SpecInvokerInit /\ [][InvokerNext]_vars
SpecOverlap == SpecInvokerInit /\ [][OverlapNext]_vars

SpecProviderInit ==
    /\ ProviderInit /\ StoreIdle /\ InvokerIdle /\ FactoryIdle /\ AgentIdle
    /\ HistoryIdle /\ ServiceIdle
    /\ RaceIdle
    /\ ToolIdle
    /\ DBIdle
SpecProvider == SpecProviderInit /\ [][ProviderNext]_vars

SpecRegistryInit ==
    /\ RegistryInit /\ StoreIdle /\ InvokerIdle /\ FactoryIdle /\ AgentIdle
    /\ HistoryIdle /\ ServiceIdle
    /\ RaceIdle
    /\ ToolIdle
    /\ DBIdle
SpecRegistry == SpecRegistryInit /\ [][RegistryNext]_vars

SpecFactoryInit ==
    /\ FactoryInit /\ StoreIdle /\ InvokerIdle /\ ProviderIdle /\ AgentIdle
    /\ HistoryIdle /\ ServiceIdle
    /\ RaceIdle
    /\ ToolIdle
    /\ DBIdle
SpecFactory == SpecFactoryInit /\ [][FactoryNext]_vars
SpecMulti == SpecFactoryInit /\ [][MultiNext]_vars

SpecAgentInit ==
    /\ AgentInit /\ StoreIdle /\ InvokerIdle /\ ProviderIdle /\ FactoryIdle
    /\ HistoryIdle /\ ServiceIdle
    /\ RaceIdle
    /\ ToolIdle
    /\ DBIdle
SpecAgent == SpecAgentInit /\ [][AgentNext]_vars

SpecHistoryInit ==
    /\ HistoryInit
    /\ backend = "mongo" /\ mem = [k \in Keys |-> <<>>] /\ redis = [u \in Users |-> {}]
    /\ docs = <<>> /\ lastOp = NoOp /\ nOps = 0
    /\ InvokerIdle /\ ProviderIdle /\ FactoryIdle /\ AgentIdle /\ ServiceIdle
    /\ RaceIdle
    /\ ToolIdle
    /\ DBIdle
SpecSessions == SpecHistoryInit /\ [][SessionsNext]_vars
SpecConstruct == SpecHistoryInit /\ [][ConstructNext]_vars
SpecFaults == SpecHistoryInit /\ [][FaultsNext]_vars

SpecServiceInit ==
    /\ ServiceInit /\ RegistryInit /\ FactoryInit
    /\ StoreIdle /\ InvokerIdle /\ AgentIdle /\ HistoryIdle
    /\ RaceIdle
    /\ ToolIdle
    /\ DBIdle
SpecService == SpecServiceInit /\ [][ServiceNext]_vars

SpecRaceInit ==
    /\ RaceInit /\ HistoryInit
    /\ backend = "mongo" /\ mem = [k \in Keys |-> <<>>] /\ redis = [u \in Users |-> {}]
    /\ docs = <<>> /\ lastOp = NoOp /\ nOps = 0
    /\ InvokerIdle /\ ProviderIdle /\ FactoryIdle /\ AgentIdle /\ ServiceIdle
    /\ ToolIdle
    /\ DBIdle
SpecRace == SpecRaceInit /\ [][RaceNext]_vars

SpecToolInit ==
    /\ ToolInit
    /\ StoreIdle /\ InvokerIdle /\ ProviderIdle /\ FactoryIdle /\ AgentIdle
    /\ HistoryIdle /\ ServiceIdle /\ RaceIdle /\ DBIdle
SpecTool == SpecToolInit /\ [][ToolNext]_vars

SpecDBInit ==
    /\ DBInit
    /\ StoreIdle /\ InvokerIdle /\ ProviderIdle /\ FactoryIdle /\ AgentIdle
    /\ HistoryIdle /\ ServiceIdle /\ RaceIdle /\ ToolIdle
SpecDB == SpecDBInit /\ [][DBNext]_vars

\* ------------------------------------------------ claims on the stores
HistoryVariants == {"memory", "redis", "mongo"}

IsPrefix(p, s) == Len(p) <= Len(s) /\ SubSeq(s, 1, Len(p)) = p

SameMessage(a, b) == a.type = b.type /\ a.content = b.content

\* C2: after add_message(m) on a key of any HistoryStore variant, every message
\* listed for that key before the call is still listed, at the same place: the
\* earlier log is a prefix of the later one (nothing dropped, replaced, reordered).
C2_AppendKeepsEarlierMessages ==
    (lastOp.op = "add" /\ backend \in HistoryVariants)
        => IsPrefix(lastOp.before, List(backend, lastOp.key))

\* C3: after add_message(M) on any HistoryStore variant, for M of any role, the
\* listing of the same session is non-empty and its last element has M's role
\* and M's content.
C3_AppendThenListEndsWithMessage ==
    (lastOp.op = "add" /\ backend \in HistoryVariants)
        => LET after == List(backend, lastOp.key)
           IN  /\ after # <<>>
               /\ SameMessage(after[Len(after)], lastOp.msg)

\* C4: for every key and every size limit k >= 1, each bounded read (history_size
\* of EnhancedMongoDBChatMessageHistory.messages, limit of MemoryStore.get_messages
\* and of MongoStore.get_messages) returns the most recent min(n, k) of the n
\* stored messages, in their stored order.
C4_BoundedReadIsMostRecent ==
    \A key \in Keys, k \in 1..MaxLimit :
        /\ MongoMessages(key[1], key[2], k) = LastK(MongoMessages(key[1], key[2], NoSize), k)
        /\ MemoryStoreGetMessages(key[1], k) = LastK(MemoryStoreGetMessages(key[1], NoLimit), k)
        /\ MongoStoreGetMessages(key[1], key[2], k)
               = LastK(MongoStoreGetMessages(key[1], key[2], NoLimit), k)

\* C5 (state part): after clear on a key, whether it held messages or none, the
\* listing of that key is empty.
ClearEmptiesLog == lastOp.op = "clear" => List(backend, lastOp.key) = <<>>

\* C5 (step part): a clear of the key that was cleared by the step before changes
\* nothing in any store.
ClearTwiceIsClearOnce ==
    (lastOp.op = "clear" /\ lastOp'.op = "clear" /\ lastOp'.key = lastOp.key)
        => UNCHANGED <<mem, redis, mongo, docs>>

AssistantMessages(log) == SelectSeq(log, LAMBDA m : m.type = "ai")

\* The log a call reads and writes: the agent's chat_history or the manager's store
LogOf(call) ==
    IF call.shape \in AgentShapes THEN StoreLog(chat_history, call.session)
    ELSE StoreLog(store, call.session)

\* C1: after N sequential successful turns on a session that started empty, the
\* session's history is exactly the 2N messages user, assistant, user, assistant,
\* ... in issuance order; for BaseAgent.invoke and for ChatHistoryManager.invoke
\* and ainvoke with a list input and with a dict input whose input key holds a
\* string, a message or a list.
C1_TurnsAlternate ==
    NoneInFlight =>
        \A s \in Sessions :
            /\ expected[s].ok => StoreLog(store, s) = expected[s].log
            /\ agentExpected[s].ok => StoreLog(chat_history, s) = agentExpected[s].log

\* C6: a streamed turn (stream, astream, BaseAgent.stream) that the caller
\* cancelled, or whose wrapped stream raised, after fragments were yielded has
\* left no assistant message in the session history: the assistant messages
\* of the history are those that were there when the turn started.
C6_CancelledStreamLeavesNoReply ==
    \A c \in CallIds :
        (/\ calls[c].shape \in StreamShapes
         /\ calls[c].pc \in {"cancelled", "failed"}
         /\ calls[c].yielded # <<>>)
            => AssistantMessages(LogOf(calls[c]))
                   = AssistantMessages(calls[c].history_messages)

\* A second turn, streamed by the manager, is cancelled after a fragment, on a
\* session whose history holds the first turn.
C6_Witness ==
    \E c \in CallIds :
        /\ calls[c].shape \in {"stream", "astream"}
        /\ calls[c].pc = "cancelled"
        /\ calls[c].yielded # <<>>
        /\ calls[c].history_messages # <<>>

\* C7 (state part): what a call of the manager has appended is its input
\* messages and then, once it is done, its output; a streaming call has appended
\* only its input until it is drained, and then one assistant message whose
\* content is the yielded fragments concatenated in yield order.
InputThenOutput ==
    \A c \in CallIds :
        LET call == calls[c]
            inputs == InputMessagesToSave(call.messages)
        IN  (call.shape \in Shapes /\ call.resolved) =>
                /\ LogOf(call) = call.history_messages \o call.appended
                /\ call.pc = "calling" => call.appended = <<>>
                /\ (call.pc \in {"streaming", "cancelled"}
                       \/ (call.pc = "failed" /\ call.error = "unit_raised"
                              /\ call.shape \in StreamShapes))
                       => call.appended = inputs
                /\ (call.pc = "done" /\ call.shape \in StreamShapes)
                       => call.appended = inputs \o <<AIMessage(Flatten(call.yielded))>>
                /\ (call.pc = "done" /\ call.shape \notin StreamShapes)
                       => call.appended = inputs \o OutputToSave(call.response)

\* C7 (step part): the only step of a started stream that changes the history is
\* the step that ends it drained, and it appends exactly one message.
OneAppendAfterDrain ==
    \A c \in CallIds :
        (/\ calls[c].pc = "streaming"
         /\ calls[c].shape \in {"stream", "astream"}
         /\ store' # store)
            => /\ calls'[c].pc = "done"
               /\ Len(store'[calls[c].session]) = Len(store[calls[c].session]) + 1

\* C7: in invoke, ainvoke, stream and astream the input messages of a turn are
\* persisted before its output message; the streaming shapes persist the output by
\* one append, made after the stream is drained, of the concatenated fragments.
C7_InputBeforeOutput == []InputThenOutput /\ [][OneAppendAfterDrain]_vars

\* A stream with input messages to save is drained after all its fragments.
C7_Witness ==
    \E c \in CallIds :
        /\ calls[c].shape \in {"stream", "astream"}
        /\ calls[c].pc = "done"
        /\ Len(calls[c].yielded) = MaxFragments
        /\ InputMessagesToSave(calls[c].messages) # <<>>

\* C8 (state part): a call of the manager whose config carries no session id has
\* failed with the missing-session-id error, with no session store resolved, the
\* wrapped unit not invoked and nothing appended.
FailsBeforeAnything ==
    \A c \in CallIds :
        (calls[c].shape \in Shapes /\ calls[c].config.session_id = None)
            => /\ calls[c].pc = "failed"
               /\ calls[c].error = "missing_session_id"
               /\ ~calls[c].resolved
               /\ ~calls[c].invoked
               /\ calls[c].appended = <<>>

\* C8 (step part): the step of such a call creates no history and changes none.
FailedCallLeavesStore ==
    \A c \in CallIds :
        (/\ calls'[c] # calls[c]
         /\ calls'[c].shape \in Shapes
         /\ calls'[c].config.session_id = None)
            => store' = store

\* C8: in invoke, ainvoke, stream and astream a call whose configuration lacks
\* configurable.session_id fails with the missing-session-id error before the
\* session store is resolved, before the wrapped unit is invoked and before
\* anything is appended: no history is created or changed.
C8_MissingSessionIdFailsFirst == []FailsBeforeAnything /\ [][FailedCallLeavesStore]_vars

\* A call without session id fails on a manager whose registry holds a history.
C8_Witness ==
    \E c \in CallIds :
        /\ calls[c].shape \in Shapes
        /\ calls[c].config.kind = "no_session_id"
        /\ calls[c].pc = "failed"
        /\ store # <<>>

\* ------------------------------------------ claims on the provider registry
\* A provider the configuration makes valid: a credential, a class, and models
ValidInConfig(n) == n \in api_keys /\ n \in DOMAIN discovered /\ discovered[n]

\* C9: with provider "a" valid and the others lacking a credential, automatic
\* registration leaves only "a" in the registry and makes "a" the default, also
\* when "b" is the configured DEFAULT_AI_PROVIDER; and whenever a provider is
\* registered, the default provider is a registered provider.
C9_DefaultIsRegistered ==
    /\ (phase = "auto" /\ registrations = <<>>) =>
           /\ ListConfiguredProviders(providers) = {n \in ProviderNameSet : ValidInConfig(n)}
           /\ (ValidInConfig("a") /\ api_keys = {"a"}) =>
                  /\ ListConfiguredProviders(providers) = {"a"}
                  /\ default_provider = "a"
    /\ providers # <<>> => default_provider \in ListConfiguredProviders(providers)

\* Only "a" is valid, "b" is the configured default, and registration has run.
C9_Witness ==
    /\ phase = "auto"
    /\ registrations = <<>>
    /\ api_keys = {"a"}
    /\ DEFAULT_AI_PROVIDER = "b"
    /\ ListConfiguredProviders(providers) = {"a"}
    /\ default_provider = "a"

\* C10 as stated: get_chat_model resolves to the default provider both when the
\* name is omitted and when it names no registered provider, and raises
\* provider-not-found only when there is no default provider either.
C10_UnknownNameFallsBack ==
    lastGet.op = "get_chat_model" =>
        LET name == lastGet.provider_name
            result == lastGet.result
        IN  /\ (Falsy(name) \/ name \notin ListConfiguredProviders(providers))
                   => IF default_provider # None
                      THEN result = [raised |-> None, provider |-> default_provider]
                      ELSE result.raised = "provider_not_found"
            /\ result.raised = "provider_not_found" => default_provider = None

\* C10 amended: get_chat_model resolves to the default provider when the name is
\* omitted, and to the named provider when it is registered; a name that is not
\* registered raises provider-not-found whether or not a default provider exists,
\* and an omitted name raises it only when no default provider exists.  With the
\* name the chat handler passes on (the requested one when registered, the default
\* provider otherwise) the call raises only when no default provider exists.
C10_OmittedNameFallsBack ==
    /\ lastGet.op = "get_chat_model" =>
           LET name == lastGet.provider_name
               result == lastGet.result
           IN  IF Falsy(name)
               THEN IF default_provider # None
                    THEN result = [raised |-> None, provider |-> default_provider]
                    ELSE result.raised = "provider_not_found"
               ELSE IF name \in ListConfiguredProviders(providers)
                    THEN result = [raised |-> None, provider |-> name]
                    ELSE result.raised = "provider_not_found"
    /\ \A name \in RequestNames :
           LET result == GetChatModel(ResolveProviderName(name))
           IN  IF default_provider = None THEN result.raised = "provider_not_found"
               ELSE /\ result.raised = None
                    /\ result.provider = IF name \in ListConfiguredProviders(providers)
                                         THEN name ELSE default_provider

\* An unregistered name is asked for while a default provider exists, and the
\* call raises.
C10_Witness ==
    /\ lastGet.op = "get_chat_model"
    /\ lastGet.provider_name = "zz"
    /\ default_provider # None
    /\ lastGet.result.raised = "provider_not_found"

\* The registrations that claimed the default
Flagged == {i \in 1..Len(registrations) : registrations[i].is_default}

\* C11: after any sequence of register_provider calls on a manager constructed
\* empty, the default provider is the name of the most recent registration made
\* with is_default=True, or the name of the first registration if none claimed
\* the default; the default is unset only while no provider is registered and
\* otherwise names a registered provider.
C11_DefaultRule ==
    /\ phase = "manual" =>
           default_provider =
               IF registrations = <<>> THEN None
               ELSE IF Flagged # {}
                    THEN registrations[CHOOSE i \in Flagged : \A j \in Flagged : j <= i].name
                    ELSE registrations[1].name
    /\ default_provider = None <=> providers = <<>>
    /\ providers # <<>> => default_provider \in ListConfiguredProviders(providers)

\* A flagged registration is followed by an unflagged one of another name: the
\* default stays with the flagged one.
C11_Witness ==
    /\ phase = "manual"
    /\ Len(registrations) = 2
    /\ registrations[1].is_default
    /\ ~registrations[2].is_default
    /\ registrations[1].name # registrations[2].name
    /\ default_provider = registrations[1].name

\* An adapter with a non-empty credential and a non-empty declared model list
Usable(provider) == provider.api_key /\ provider.has_models

\* C12 as stated: an adapter validates exactly when its credential and its model
\* list are non-empty, and in every reachable state of the registry every
\* registered provider, and so the default provider, validates as usable.
C12_OnlyUsableRegistered ==
    /\ \A name \in ProviderNameSet : \A provider \in Adapters(name) :
           ProviderValidateConfig(provider) <=> Usable(provider)
    /\ \A i \in 1..Len(providers) : Usable(providers[i])

\* C12 amended: an adapter validates exactly when its credential and its model
\* list are non-empty, and every provider that automatic registration registers,
\* and so the default it sets, validates as usable: the registry then holds
\* exactly the configured providers that are usable.  register_provider itself
\* stores the adapter it is given, usable or not.
C12_AutoRegistersOnlyUsable ==
    /\ \A name \in ProviderNameSet : \A provider \in Adapters(name) :
           ProviderValidateConfig(provider) <=> Usable(provider)
    /\ (phase = "auto" /\ registrations = <<>>) =>
           /\ \A i \in 1..Len(providers) : Usable(providers[i])
           /\ \A n \in api_keys :
                  discovered[n] <=> n \in ListConfiguredProviders(providers)
           /\ default_provider # None => Usable(ProvidersGet(providers, default_provider))
    /\ registrations # <<>> =>
           registrations[Len(registrations)].name \in ListConfiguredProviders(providers)

\* Automatic registration has met a provider with a credential whose class
\* declares no models, and registered another.
C12_Witness ==
    /\ phase = "auto"
    /\ registrations = <<>>
    /\ "b" \in api_keys
    /\ "b" \notin ListConfiguredProviders(providers)
    /\ providers # <<>>

\* ------------------------------------------------- claims on the factory
\* The cache entries, before the last call, of its agent type and its config text
EarlierSame ==
    {e \in lastCreate.before : e.key = <<lastCreate.agent_type, lastCreate.config_str>>}

\* C13 (state part): a create_agent call whose agent type and config text equal
\* those of an earlier successful call returns that call's instance; a call that
\* differs in either and constructs returns an instance no earlier call returned;
\* no two cache keys share an instance and no key has two.
SameConfigSameInstance ==
    /\ lastCreate.op = "create_agent" =>
           /\ EarlierSame # {} =>
                  /\ lastCreate.outcome = "cached"
                  /\ \A e \in EarlierSame : lastCreate.instance = e.instance
           /\ (EarlierSame = {} /\ lastCreate.outcome # "unsupported_type"
                  /\ lastCreate.outcome # "constructor_raised") =>
                  /\ lastCreate.outcome = "created"
                  /\ lastCreate.instance \notin {e.instance : e \in lastCreate.before}
                  /\ lastCreate.instance = Len(made)
    /\ \A e1, e2 \in instances :
           (e1.key = e2.key \/ e1.instance = e2.instance) => e1 = e2

\* C13 (step part): every cache entry stays as it is.
CacheKeepsEntries == instances \subseteq instances'

\* C13: two create_agent calls with the same agent type and byte-identical config
\* return the same instance, a call whose config differs returns a second,
\* independent instance, and a cached instance is never replaced or invalidated.
C13_CacheIdentity == []SameConfigSameInstance /\ [][CacheKeepsEntries]_vars

\* A second call with the type and config text of the first is served from the
\* cache.
C13_Witness ==
    /\ lastCreate.op = "create_agent"
    /\ lastCreate.calls = 2
    /\ lastCreate.outcome = "cached"

\* An agent type that discovery does not know
Unknown(agent_type) == Lower(agent_type) \notin discovered_agents

\* C14 as stated: create_agent with an agent type discovery does not know returns
\* an instance of the default type writing, and raises only when writing is not
\* discovered either.
C14_UnknownTypeGetsDefault ==
    (lastCreate.op = "create_agent" /\ Unknown(lastCreate.agent_type)) =>
        IF "writing" \in discovered_agents
        THEN /\ lastCreate.outcome \in {"created", "cached"}
             /\ made[lastCreate.instance].class = "writing"
        ELSE lastCreate.outcome = "unsupported_type"

\* C14 amended: create_agent with an agent type discovery does not know resolves
\* the default type writing: it returns a writing instance (constructed, or cached
\* for that type and config), and it raises only when writing is not discovered
\* either or the constructor of the writing class raises.
C14_UnknownTypeResolvesDefault ==
    (lastCreate.op = "create_agent" /\ Unknown(lastCreate.agent_type)) =>
        IF "writing" \in discovered_agents
        THEN \/ /\ lastCreate.outcome \in {"created", "cached"}
                /\ made[lastCreate.instance].class = "writing"
             \/ /\ lastCreate.outcome = "constructor_raised"
                /\ EarlierSame = {}
        ELSE lastCreate.outcome = "unsupported_type"

\* The unknown type "foo" is asked for and a writing instance is constructed.
C14_Witness ==
    /\ lastCreate.op = "create_agent"
    /\ lastCreate.agent_type = "foo"
    /\ lastCreate.outcome = "created"
    /\ made[lastCreate.instance].class = "writing"

\* The configured names whose construction succeeds: a class is resolved, and its
\* constructor returns or the factory holds the instance already.
Succeeds(name) ==
    /\ Lower(name) \in discovered_agents \/ "writing" \in discovered_agents
    /\ \/ name \notin multi.failing
       \/ \E e \in instances : e.key[1] = name

SucceededInOrder == SelectSeq(multi.agent_configs, Succeeds)

\* C15: the construction of a MultiAgentManager completes whichever agents fail
\* to construct: the available agents are the configured names whose construction
\* succeeded, in configuration order, and the default agent is the first of them,
\* unset exactly when there is none.
C15_FailuresAreSkipped ==
    multi.constructed =>
        /\ [i \in 1..Len(multi.agents) |-> multi.agents[i].name] = SucceededInOrder
        /\ GetAvailableAgents = {multi.agent_configs[i] : i \in 1..Len(multi.agent_configs)}
                                    \ {n \in AgentNames : ~Succeeds(n)}
        /\ multi.default_agent = IF SucceededInOrder = <<>> THEN None
                                  ELSE SucceededInOrder[1]
        /\ (GetDefaultAgent = 0) <=> (GetAvailableAgents = {})

\* The first of three configured agents fails to construct and the second is the
\* default agent.
C15_Witness ==
    /\ multi.constructed
    /\ Len(multi.agent_configs) = 3
    /\ multi.agent_configs[1] \notin GetAvailableAgents
    /\ multi.default_agent = multi.agent_configs[2]

\* ------------------------------------------------ claims on the agents
OverridingCalls ==
    {c \in ChatCallers : /\ chats[c].invoked # Unbound
                         /\ Overrides(chats[c].provider_name, chats[c].model_name)}

\* C16: a call of chat, stream_chat, achat or astream_chat that names a
\* provider or a model invokes a chain bound to the model resolved for that
\* call, never one bound to a model resolved for another call, overlapping
\* calls on the same agent included.
C16_InvokedChainIsResolved ==
    \A c \in OverridingCalls :
        chats[c].invoked = ChatModel(chats[c].provider_name, chats[c].model_name)

FailedCalls == {c \in ChatCallers : chats[c].pc = "done" /\ chats[c].failed}

\* C17: a call in which the model, a tool or the chain failed does not raise:
\* chat and achat return the fixed apology, the streams yield that same apology
\* as their last fragment and end.
C17_FailureBecomesApology ==
    \A c \in FailedCalls :
        /\ chats[c].result = (IF chats[c].method \in Streaming THEN "ended" ELSE "returned")
        /\ chats[c].out # <<>>
        /\ chats[c].out[Len(chats[c].out)] = Apology

\* ------------------------------------------------ claims on the session registries
\* C18: a backend failure during an append or a read of the document-backed
\* history does not raise: the append changes nothing, the read returns the
\* empty list, and a turn whose history write fails after the runnable
\* answered still returns the answer to its caller.
C18_BackendFailureIsSwallowed ==
    lastFault.op # "none" =>
        /\ lastFault.outcome = "returned"
        /\ lastFault.op = "add_message" => lastFault.unchanged
        /\ lastFault.op = "messages" => lastFault.result = <<>>
        /\ lastFault.op = "invoke" => lastFault.result = lastFault.reply

ExactlyOneSupplied == Falsy(lastNew.connection_string) # Falsy(lastNew.client)

\* C19: constructing the document-backed history succeeds only with exactly
\* one of connection string and client supplied; with neither or both it
\* raises the constructor's error and no history object comes to exist.
C19_ExactlyOneConnectionSource ==
    lastNew.op = "new" =>
        /\ lastNew.stored => ExactlyOneSupplied /\ lastNew.outcome = "constructed"
        /\ ~ExactlyOneSupplied => lastNew.outcome = "ValueError" /\ ~lastNew.stored

\* both a connection string and a client were passed, and the call raised
C19_Witness ==
    /\ lastNew.op = "new"
    /\ ~Falsy(lastNew.connection_string) /\ ~Falsy(lastNew.client)
    /\ lastNew.outcome = "ValueError"
    /\ history_objects # <<>>

StoresOf(registry, session_id) ==
    {i \in Objects : /\ RegistryOf(history_objects[i].class) = registry
                     /\ history_objects[i].session_id = session_id}

\* C20: a registry holds at most one history store per session id: it is
\* created once, on the first access, and every later access for that session
\* id returns that same store, listing all messages appended so far.
C20_OneStorePerSession ==
    /\ \A r \in Registries, s \in Sessions :
          /\ Cardinality(StoresOf(r, s)) <= 1
          /\ Cardinality(granted[r][s]) <= 1
    /\ lastAccess.op # "none" => lastAccess.listed = lastAccess.appended

\* ------------------------------------------------ claims on the web service
\* C21: a configuration failure at start-up (no provider configured, the
\* provider registry failing to initialise, no agent constructible) stops the
\* service: it never serves requests with a manager uninitialised, without a
\* provider or without an agent.
C21_NeverServesHalfInitialised ==
    service.state = "serving" =>
        /\ service.model_provider_manager
        /\ service.multi_agent_manager
        /\ providers # <<>>
        /\ GetAvailableAgents # {}

EndPositions == {i \in 1..Len(stream.events) : stream.events[i].event = "end"}
Refusals == {"no_agent_manager", "no_agent", "no_provider_manager"}

\* C22: every /stream_chat response is terminated by the event "end": on every
\* path of the handler the last event is "end", it is emitted exactly once, and
\* nothing follows it.
C22_EveryResponseEndsWithEnd ==
    /\ \A i \in EndPositions : i = Len(stream.events)
    /\ stream.pc = "done" => EndPositions = {Len(stream.events)} /\ stream.events # <<>>

\* C22, amended: a response the agent streams, also when the agent fails in the
\* middle of the turn, ends with exactly one event "end" and nothing follows
\* it; a request refused because a manager is missing or the agent is
\* unavailable is answered with the single event "error" and no "end".
C22_StreamedResponsesEndWithEnd ==
    /\ \A i \in EndPositions : i = Len(stream.events)
    /\ (stream.pc = "done" /\ stream.path \notin Refusals) =>
           EndPositions = {Len(stream.events)} /\ stream.events # <<>>
    /\ (stream.pc = "done" /\ stream.path \in Refusals) =>
           /\ Len(stream.events) = 1
           /\ stream.events[1].event = "error"

\* the agents are up and the provider manager is not: the request is refused
C22_Witness ==
    /\ stream.pc = "done"
    /\ stream.path = "no_provider_manager"
    /\ stream.events = <<ErrorEvent("provider manager not initialised")>>


\* ------------------------------------------------ claims on overlapping turns
\* The two messages of a turn: its user message and its reply
TurnUser(call) == HumanMessage(UserText(call.input))
TurnReply(call) ==
    IF call.shape \in StreamShapes THEN AIMessage(call.full_response)
    ELSE AIMessage(ReplyText(call.response))
TurnMessages(call) == <<TurnUser(call), TurnReply(call)>>

BothDone == \A c \in CallIds : calls[c].pc = "done"
OverlapLog == StoreLog(store, OverlapSession)

\* C23 as stated: after two overlapping invocations on one session have completed,
\* the log holds the two turns whole, one after the other (in the order of their
\* completion), no message lost or duplicated.
C23_TurnsInCompletionOrder ==
    BothDone =>
        \/ OverlapLog = TurnMessages(calls[1]) \o TurnMessages(calls[2])
        \/ OverlapLog = TurnMessages(calls[2]) \o TurnMessages(calls[1])

Begins(c) == Finished(c) /\ calls'[c].pc \in {"calling", "streaming"}
Completes(c) == InFlight(c) /\ calls'[c].pc = "done"

\* C23, amended: every step of an overlapping turn only appends to the log. ainvoke
\* appends nothing when it starts and the turn's user message and reply together
\* when it completes; astream appends the user message when it starts and the
\* reply when it completes; no other step changes the log.
C23_AppendsLandInOrder ==
    [][/\ \A c \in CallIds :
            /\ Begins(c) =>
                 StoreLog(store', OverlapSession) =
                     OverlapLog \o (IF calls'[c].shape = "astream"
                                    THEN <<TurnUser(calls'[c])>> ELSE <<>>)
            /\ Completes(c) =>
                 StoreLog(store', OverlapSession) =
                     OverlapLog \o (IF calls'[c].shape = "astream"
                                    THEN <<TurnReply(calls'[c])>>
                                    ELSE TurnMessages(calls'[c]))
       /\ (\A c \in CallIds : ~Begins(c) /\ ~Completes(c)) =>
              StoreLog(store', OverlapSession) = OverlapLog]_vars

\* Two streamed turns overlapped and completed: both user messages came first.
C23_Witness ==
    /\ BothDone
    /\ \A c \in CallIds : calls[c].shape = "astream"
    /\ Len(OverlapLog) = 4
    /\ OverlapLog[1].type = "human" /\ OverlapLog[2].type = "human"

\* ------------------------------------------------ claims on the races
Settled == \A t \in ThreadIds : threads[t].pc \in {"idle", "holding"}

\* C24: once the threads racing on one key have returned, no message appended
\* through a store a thread was handed is missing from the session's log, and the
\* threads hold one and the same object.
C24_RaceLeavesOneStore ==
    Settled =>
        /\ RaceSession \in DOMAIN agent_histories =>
              history_objects[agent_histories[RaceSession]].messages =
                  appended["BaseAgent"][RaceSession]
        /\ \A t, u \in ThreadIds :
              /\ threads[t].pc = "holding" /\ threads[u].pc = "holding"
              /\ threads[t].registry = threads[u].registry
              => threads[t].held = threads[u].held

\* ------------------------------------------------ claims on key isolation
\* C25: an add_message or a clear on one (user, session) key leaves the log
\* listed for every other key as it was, so a key lists only what was appended
\* under it.
C25_KeysAreIsolated ==
    [][nOps' = nOps + 1 =>
          \A k \in Keys \ {lastOp'.key} : List(backend, k)' = List(backend, k)]_vars

\* ------------------------------------------------ claims on the history value
\* C26: while the wrapped unit runs, the history it was handed equals the session
\* log as it was when the turn began: it holds neither the turn's input nor its
\* output.
C26_HistoryIsTheLogAtBegin ==
    \A c \in CallIds :
        /\ calls[c].pc \in {"calling", "streaming"}
        /\ calls[c].shape \in Shapes
        /\ calls[c].input.kind = "dict"
        => HistorySeen(c) = calls[c].history_messages

\* ------------------------------------------------ claims on failed turns
UnitRaised(c) == calls[c].pc = "failed" /\ calls[c].error = "unit_raised"

\* C27 as stated: after a turn whose wrapped unit raised, the session log is as it
\* was before the turn, in every call shape.
C27_FailedTurnLeavesLog ==
    \A c \in CallIds : UnitRaised(c) => LogOf(calls[c]) = calls[c].history_messages

\* C27, amended: after a turn whose wrapped unit raised, invoke / ainvoke and
\* BaseAgent.invoke / stream leave the log as it was before the turn; stream /
\* astream leave the log extended by the turn's input messages and nothing else.
C27_FailedTurnKeepsNoReply ==
    \A c \in CallIds :
        UnitRaised(c) =>
            LogOf(calls[c]) = calls[c].history_messages \o
                           (IF calls[c].shape \in {"stream", "astream"}
                            THEN InputMessagesToSave(calls[c].messages)
                            ELSE <<>>)

\* A streamed turn raised after its input had been saved.
C27_Witness ==
    \E c \in CallIds :
        /\ UnitRaised(c)
        /\ calls[c].shape \in {"stream", "astream"}
        /\ Len(LogOf(calls[c])) > Len(calls[c].history_messages)

\* ------------------------------------------------ claims on tools/db_tool.py
\* C28: the user message and the reply of a completed chat / achat are stored
\* under the chat_id and user_id passed to that call, also when calls overlap.
C28_SavedUnderTheCallsKey ==
    \A c \in ToolCallers :
        toolChats[c].pc = "done" =>
            \A m \in {HumanMessage(toolChats[c].message), AIMessage(toolChats[c].reply)} :
                \E i \in 1..Len(mongo) :
                    /\ MessageFromDict(mongo[i].History) = m
                    /\ mongo[i].SessionId = toolChats[c].chat_id
                    /\ mongo[i].UserId = UserIdOrDefault(toolChats[c].user_id)

\* ------------------------------------------------ claims on the default model
\* C29: a WritingAgent call that supplies neither provider_name nor model_name
\* runs against the model bound at construction, whatever earlier calls did.
C29_NoOverrideRunsDefault ==
    \A c \in ChatCallers :
        /\ agent = "writing"
        /\ ~Overrides(chats[c].provider_name, chats[c].model_name)
        /\ chats[c].invoked # Unbound
        => chats[c].invoked = DefaultModel

\* ------------------------------------------------ claims on DBAgent's history
Contains(log, ms) == \A i \in 1..Len(ms) : \E j \in 1..Len(log) : log[j] = ms[i]

\* C30: after a successful turn on a chat_id, with any user_id, get_history of
\* that chat_id contains the turn's messages; after clear_history of a chat_id,
\* get_history of it is empty and no message of the chat is left in the store.
C30_HistoryFollowsTheChat ==
    /\ lastDB.op = "turn" => Contains(GetHistory(mongo, lastDB.chat_id), lastDB.messages)
    /\ lastDB.op = "clear_history" =>
          /\ GetHistory(mongo, lastDB.chat_id) = <<>>
          /\ \A i \in 1..Len(mongo) : mongo[i].SessionId # lastDB.chat_id

====
